---- MODULE Spec2Model ----
(***************************************************************************)
(* Model of rust-db-copier, PostgreSQL catalog path.                       *)
(*                                                                         *)
(* SQL text is modelled as a sequence of tokens (strings).  Every pattern  *)
(* the program searches for or replaces ("public.", "nextval('",           *)
(* "'::regclass)", "'", ".") is a sequence of whole tokens, and no token   *)
(* contains a piece of a pattern, so token-level search and replace agree  *)
(* with the character-level operations of the program.                     *)
(***************************************************************************)
EXTENDS Integers, Sequences, FiniteSets, TLC

\* ------------------------------------------------------------------ bounds

\* Largest number of tables the source schema holds in a modelled run.
MaxTables == 3
\* Largest number of injected (transient) database errors in a modelled run.
MaxFaults == 1

\* ------------------------------------------------------------ text helpers

StartsWithAt(s, pat, i) ==
    /\ i + Len(pat) - 1 <= Len(s)
    /\ \A k \in 1..Len(pat) : s[i + k - 1] = pat[k]

\* str::contains
Contains(s, pat) == \E i \in 1..Len(s) : StartsWithAt(s, pat, i)

\* The first match of pat in s at or after position from (0: none).
NextMatch(s, pat, from) ==
    IF \E i \in from..Len(s) : StartsWithAt(s, pat, i)
    THEN CHOOSE i \in from..Len(s) :
            StartsWithAt(s, pat, i) /\ \A m \in from..(i - 1) : ~StartsWithAt(s, pat, m)
    ELSE 0

RECURSIVE ReplaceFrom(_, _, _, _)
ReplaceFrom(s, pat, rep, i) ==
    LET m == NextMatch(s, pat, i)
    IN IF m = 0 THEN SubSeq(s, i, Len(s))
       ELSE SubSeq(s, i, m - 1) \o rep \o ReplaceFrom(s, pat, rep, m + Len(pat))

\* str::replace: every non-overlapping match, left to right (pat is non-empty).
Replace(s, pat, rep) == ReplaceFrom(s, pat, rep, 1)

RECURSIVE SplitFrom(_, _, _)
SplitFrom(s, sep, i) ==
    LET m == NextMatch(s, <<sep>>, i)
    IN IF m = 0 THEN <<SubSeq(s, i, Len(s))>>
       ELSE <<SubSeq(s, i, m - 1)>> \o SplitFrom(s, sep, m + 1)

\* str::split(sep).collect(): the pieces between the separators.
Split(s, sep) == SplitFrom(s, sep, 1)

RECURSIVE Flatten(_)
Flatten(ss) == IF ss = <<>> THEN <<>> ELSE Head(ss) \o Flatten(Tail(ss))

RECURSIVE JoinWith(_, _)
JoinWith(ss, sep) ==
    IF ss = <<>> THEN <<>>
    ELSE IF Len(ss) = 1 THEN Head(ss)
    ELSE Head(ss) \o sep \o JoinWith(Tail(ss), sep)

Range(s) == {s[k] : k \in 1..Len(s)}

\* All orders of the elements of a finite set, as sequences.
Perms(S) ==
    {p \in [1..Cardinality(S) -> S] : \A a, b \in 1..Cardinality(S) : p[a] = p[b] => a = b}

\* ------------------------------------------------- characters of the names

Letters ==
    {"a", "b", "c", "d", "e", "f", "g", "h", "i", "j", "k", "l", "m",
     "n", "o", "p", "q", "r", "s", "t", "u", "v", "w", "x", "y", "z"}
Digits == {"0", "1", "2", "3", "4", "5", "6", "7", "8", "9"}

IsDigit(ch) == ch \in Digits
IsWord(ch) == ch \in Letters \cup Digits \cup {"_"}

\* The table names of the modelled source databases, in the order of
\* ORDER BY relname, and their characters.
SortedNames ==
    <<"accounts", "events_2024", "events_2024_01", "events_2024_bak", "orders", "test_tab",
      "users">>

NameChars(n) ==
    CASE n = "accounts" -> <<"a", "c", "c", "o", "u", "n", "t", "s">>
      [] n = "events_2024" -> <<"e", "v", "e", "n", "t", "s", "_", "2", "0", "2", "4">>
      [] n = "events_2024_01" ->
            <<"e", "v", "e", "n", "t", "s", "_", "2", "0", "2", "4", "_", "0", "1">>
      [] n = "events_2024_bak" ->
            <<"e", "v", "e", "n", "t", "s", "_", "2", "0", "2", "4", "_", "b", "a", "k">>
      [] n = "orders" -> <<"o", "r", "d", "e", "r", "s">>
      [] n = "test_tab" -> <<"t", "e", "s", "t", "_", "t", "a", "b">>
      [] n = "users" -> <<"u", "s", "e", "r", "s">>
      [] n = "legacy" -> <<"l", "e", "g", "a", "c", "y">>
      [] n = "schema_migrations" ->
            <<"s", "c", "h", "e", "m", "a", "_", "m", "i", "g", "r", "a", "t", "i", "o", "n",
              "s">>
      [] n = "ar_internal_metadata" ->
            <<"a", "r", "_", "i", "n", "t", "e", "r", "n", "a", "l", "_", "m", "e", "t", "a",
              "d", "a", "t", "a">>

\* The characters lo..hi of c are one or more word characters (\w+) / digits (\d+).
AllWord(c, lo, hi) == lo <= hi /\ \A k \in lo..hi : IsWord(c[k])
AllDigit(c, lo, hi) == lo <= hi /\ \A k \in lo..hi : IsDigit(c[k])

\* Regex::new(r"^\w+_\d+(_\d+)?$").is_match, on the characters of a name.
StagingPatternMatch(c) ==
    \E i \in 1..Len(c), j \in 1..Len(c) :
        /\ AllWord(c, 1, i)
        /\ i + 1 <= Len(c)
        /\ c[i + 1] = "_"
        /\ AllDigit(c, i + 2, j)
        /\ \/ j = Len(c)
           \/ /\ j + 1 <= Len(c)
              /\ c[j + 1] = "_"
              /\ AllDigit(c, j + 2, Len(c))

\* Regex::new(r"^\w+_\d+(_\d+)?(_\w+)?$").is_match, the default of the trait.
DefaultPatternMatch(c) ==
    \E i \in 1..Len(c), j \in 1..Len(c) :
        /\ AllWord(c, 1, i)
        /\ i + 1 <= Len(c)
        /\ c[i + 1] = "_"
        /\ AllDigit(c, i + 2, j)
        /\ \E k \in j..Len(c) :
              /\ \/ k = j
                 \/ c[j + 1] = "_" /\ AllDigit(c, j + 2, k)
              /\ \/ k = Len(c)
                 \/ c[k + 1] = "_" /\ AllWord(c, k + 2, Len(c))

\* ------------------------------------------------------------------ state

VARIABLES
    source_schema,        \* config.source.schema
    copy_staging_tables,  \* config.technology.copy_staging_tables: "true", "false", "absent"
    in_path,              \* the source schema is on the source connection's search_path
    src_tables,           \* names of the tables of the source schema
    db,                   \* the target database
    pc,                   \* position in StructureMigrator::migrate
    enums,                \* the rows list_all_enums returned
    tables,               \* the rows list_all_tables returned
    idx,                  \* loop position in enums / tables
    success, failures, skipped,
    log,                  \* statements executed on the target, and stage returns
    result,               \* what migrate returned
    faults                \* injected errors so far

\* The DDL rewriter taken alone: its functions applied to a text given character
\* by character, for a target schema of any name.
VARIABLES
    rw_target,            \* self.target_schema of the rewriter
    rw_ddl,               \* the text, a sequence of characters
    rw_calls              \* the calls made so far: function, schema argument, input, output

rw_vars == <<rw_target, rw_ddl, rw_calls>>

\* The run of the program: main, Migrator::migrate and the data migrator.
VARIABLES
    phase,                \* position in main / Migrator::migrate ("idle": not running)
    exit_code,            \* exit code of the process (-1 while it runs)
    exit_cause,           \* what ended the run
    copy_structure,       \* config.technology.copy_structure
    copy_data,            \* config.technology.copy_data
    data_source,          \* config.tables.data_source
    src_count,            \* number of rows of every table of the source schema
    src_nulls,            \* the nullable columns of the source rows hold NULL
    strict_decode,        \* try_get::<Option<String>> refuses the non-text column types
    didx,                 \* loop position in data_source
    failed_tables, success_tables,
    rerun,                \* the program was already run once on this target
    rows_before,          \* the rows of the target when DataMigrator::migrate was called
    other_enum            \* the second schema of the source holds an enum named status too

data_vars ==
    <<phase, exit_code, exit_cause, copy_structure, copy_data, data_source, src_count,
      src_nulls, strict_decode, didx, failed_tables, success_tables, rerun, rows_before,
      other_enum>>

\* The pg_dump backend of the dispatcher.
VARIABLES
    use_pg_dump,          \* config.technology.use_pg_dump
    tables_skip,          \* config.tables.skip
    output                \* what Command::output gave for the last pipeline

dump_vars == <<use_pg_dump, tables_skip, output>>

\* The MySQL path: its structure migrator and its data migrator.
VARIABLES
    mysql_source,         \* the source database: its tables, in the order of SHOW TABLES
    mysql_target,         \* the target database: its tables and their rows
    fk_checks,            \* foreign_key_checks of the target connection in use
    target_tables,        \* what get_tables read on the target
    source_tables,        \* what get_tables read on the source
    table_skipped, table_processed

mysql_vars ==
    <<mysql_source, mysql_target, fk_checks, target_tables, source_tables, table_skipped,
      table_processed>>

structure_vars ==
    <<source_schema, copy_staging_tables, in_path, src_tables, db, pc, enums, tables,
      idx, success, failures, skipped, log, result, faults>>

vars == <<structure_vars, rw_vars, data_vars, dump_vars, mysql_vars>>

\* What a step of StructureMigrator::migrate leaves alone.
StructureFrame == UNCHANGED <<rw_vars, data_vars, dump_vars, mysql_vars>>

\* No rewriter call is being looked at.
RewriterIdle ==
    /\ rw_target = ""
    /\ rw_ddl = <<>>
    /\ rw_calls = <<>>

\* The rows of the tables of the target schema, by table name: none.
NoRows == [t \in Range(SortedNames) |-> <<>>]
\* The next value of the sequence behind the DEFAULT of a table's id column, by
\* table name: a sequence that was just created gives 1.
FirstIds == [t \in Range(SortedNames) |-> 1]

\* No pipeline was run.
NoOutput == [spawned |-> FALSE, success |-> FALSE, stderr |-> FALSE]

\* The pg_dump backend is not chosen.
DumpIdle ==
    /\ use_pg_dump = FALSE
    /\ tables_skip = <<>>
    /\ output = NoOutput

\* The MySQL migrators are not running.
MysqlIdle ==
    /\ mysql_source = <<>>
    /\ mysql_target = [tables |-> {}, rows |-> <<>>]
    /\ fk_checks = 1
    /\ target_tables = <<>>
    /\ source_tables = <<>>
    /\ table_skipped = <<>>
    /\ table_processed = <<>>

\* The dispatcher and the data migrator are not running.
DataIdle ==
    /\ phase = "idle"
    /\ exit_code = -1
    /\ exit_cause = ""
    /\ copy_structure = TRUE
    /\ copy_data = FALSE
    /\ data_source = <<>>
    /\ src_count = 0
    /\ src_nulls = FALSE
    /\ strict_decode = FALSE
    /\ didx = 1
    /\ failed_tables = <<>>
    /\ success_tables = <<>>
    /\ rerun = FALSE
    /\ rows_before = NoRows
    /\ other_enum = TRUE

\* config.target.schema
TargetSchema == "app_clone"
SourceSchemas == {"public", "app"}
\* A second user schema of the source database.
OtherSchema == "other"

\* ------------------------------------------------------- the source catalog

\* Every identifier of the modelled catalogs is lower-case and unreserved.
PlainIdents ==
    Range(SortedNames) \cup SourceSchemas \cup {TargetSchema, OtherSchema}
    \cup {"id", "email", "user_id", "state", "payload", "status", "users_id_seq",
          "accounts_id_seq", "users_pkey", "accounts_pkey", "users_email_check",
          "orders_user_id_idx", "orders_user_id_fkey"}

\* quote_ident / format('%I') of a text (a token sequence) and of one identifier.
QuoteIdentS(ts) ==
    IF Len(ts) = 1 /\ ts[1] \in PlainIdents THEN ts ELSE <<"\"">> \o ts \o <<"\"">>
QuoteIdent(x) == QuoteIdentS(<<x>>)

\* How the source prints the name of an object of schema s: qualified unless s is
\* on the search_path (regclass output, pg_get_constraintdef, casts in defaults).
Printed(s, name) == IF in_path THEN <<name>> ELSE <<s, ".", name>>

NextvalDefault(s, seq) ==
    <<"nextval(", "'">> \o Printed(s, seq) \o <<"'", "::", "regclass", ")">>

Col(name, dtype, typname, maxlen, nullable, default) ==
    [column_name |-> name, data_type |-> dtype, typname |-> typname,
     character_maximum_length |-> maxlen, is_nullable |-> nullable,
     column_default |-> default]

\* information_schema.columns of a table of schema s, by ordinal_position
\* (character_maximum_length <<>> and column_default <<>> are NULL); the table
\* events_2024_bak was created without columns.
SrcColumns(s, t) ==
    IF s = OtherSchema THEN <<Col("email", "text", "text", <<>>, "YES", <<>>)>>
    ELSE IF t \in {"users", "accounts"} THEN
        <<Col("id", "bigint", "int8", <<>>, "NO",
              NextvalDefault(s, IF t = "users" THEN "users_id_seq" ELSE "accounts_id_seq")),
          Col("email", "character varying", "varchar", <<"255">>, "NO", <<>>)>>
    ELSE IF t = "orders" THEN
        <<Col("user_id", "bigint", "int8", <<>>, "YES", <<>>),
          Col("state", "USER-DEFINED", "status", <<>>, "NO",
              <<"'", "new", "'", "::">> \o Printed(s, "status"))>>
    ELSE IF t = "events_2024_bak" THEN <<>>
    ELSE <<Col("payload", "text", "text", <<>>, "YES", <<>>)>>

\* pg_class rows of kind 'r' and 'p' in user schemas: <<schema, relname>>.
SrcRelations ==
    {<<source_schema, t>> : t \in src_tables} \cup {<<OtherSchema, "users">>}

\* information_schema.sequences of the source: <<schema, name>>.
SrcSequences ==
    {<<source_schema, "users_id_seq">> : t \in src_tables \cap {"users"}}
    \cup {<<source_schema, "accounts_id_seq">> : t \in src_tables \cap {"accounts"}}

\* pg_enum / pg_type of the source, ORDER BY nspname, typname.
SrcEnums ==
    LET own == [schema |-> source_schema, enum_name |-> "status",
                enum_values |-> <<"new", "done">>]
        other == [schema |-> OtherSchema, enum_name |-> "status",
                  enum_values |-> <<"open", "closed">>]
    IN IF ~other_enum THEN <<own>>
       ELSE IF source_schema = "app" THEN <<own, other>> ELSE <<other, own>>

\* pg_indexes.indexdef of a table.
SrcIndexes(s, t) ==
    IF t \in {"users", "accounts"} THEN
        {<<"CREATE UNIQUE INDEX ", IF t = "users" THEN "users_pkey" ELSE "accounts_pkey",
           " ON ", s, ".", t, " USING btree (", "id", ")">>}
    ELSE IF t = "orders" THEN
        {<<"CREATE INDEX ", "orders_user_id_idx", " ON ", s, ".", t,
           " USING btree (", "user_id", ")">>}
    ELSE {}

\* The table the foreign key of orders references.
FkParent ==
    IF "users" \in src_tables THEN <<"users">>
    ELSE IF "accounts" \in src_tables THEN <<"accounts">>
    ELSE <<>>

Con(name, type, def) ==
    [conname |-> name, contype |-> type, constraint_def |-> def,
     condeferrable |-> FALSE, condeferred |-> FALSE, convalidated |-> TRUE]

\* pg_constraint rows of a table, with pg_get_constraintdef(oid).
SrcConstraints(s, t) ==
    IF t \in {"users", "accounts"} THEN
        {Con(IF t = "users" THEN "users_pkey" ELSE "accounts_pkey", "p",
             <<"PRIMARY KEY (", "id", ")">>)}
        \cup (IF t = "users"
              THEN {Con("users_email_check", "c", <<"CHECK (", "email", " IS NOT NULL)">>)}
              ELSE {})
    ELSE IF t = "orders" /\ FkParent # <<>> THEN
        {Con("orders_user_id_fkey", "f",
             <<"FOREIGN KEY (", "user_id", ") ", "REFERENCES ">>
             \o Printed(s, FkParent[1]) \o <<"(", "id", ")">>)}
    ELSE {}

\* pg_inherits rows (inhrelid: the child, inhparent: the parent) and
\* pg_get_expr(relpartbound) of a table (<<>> is NULL).
SrcInherits ==
    IF {"events_2024", "events_2024_01"} \subseteq src_tables
    THEN {[inhrelid |-> "events_2024_01", inhparent |-> "events_2024"]}
    ELSE {}

PartBound(t) ==
    IF \E r \in SrcInherits : r.inhrelid = t
    THEN <<"FROM ('2024-01-01') TO ('2024-02-01')">>
    ELSE <<>>

\* ------------------------------------------- catalog reader (SQL of the queries)

\* Position of the first "'" of d at or after position from (0: none).
NextQuote(d, from) ==
    IF \E k \in from..Len(d) : d[k] = "'"
    THEN CHOOSE k \in from..Len(d) : d[k] = "'" /\ \A m \in from..(k - 1) : d[m] # "'"
    ELSE 0

\* A match of nextval\('([^']+)'<tail> starts at position i of d.
NextvalMatchAt(d, tail, i) ==
    /\ i + 1 <= Len(d)
    /\ d[i] = "nextval("
    /\ d[i + 1] = "'"
    /\ NextQuote(d, i + 2) > i + 2
    /\ StartsWithAt(d, tail, NextQuote(d, i + 2) + 1)

\* regexp_replace(d, 'nextval\(''([^'']+)''<tail>', '\1'): the first match is
\* replaced by its group; without a match d is returned unchanged.
RegexpReplaceNextval(d, tail) ==
    IF \E i \in 1..Len(d) : NextvalMatchAt(d, tail, i)
    THEN LET i == CHOOSE i \in 1..Len(d) :
                    /\ NextvalMatchAt(d, tail, i)
                    /\ \A m \in 1..(i - 1) : ~NextvalMatchAt(d, tail, m)
             j == NextQuote(d, i + 2)
         IN SubSeq(d, 1, i - 1) \o SubSeq(d, i + 2, j - 1)
            \o SubSeq(d, j + 1 + Len(tail), Len(d))
    ELSE d

\* column_default LIKE 'nextval(%'
LikeNextval(d) == Len(d) >= 1 /\ d[1] = "nextval("

\* column_default LIKE 'nextval(''%.%'')'
LikeNextvalDot(d) ==
    /\ Len(d) >= 5
    /\ d[1] = "nextval(" /\ d[2] = "'"
    /\ d[Len(d) - 1] = "'" /\ d[Len(d)] = ")"
    /\ \E k \in 3..(Len(d) - 2) : d[k] = "."

\* column_default LIKE '%::%'
LikeCast(d) == \E k \in 1..Len(d) : d[k] = "::"

\* regexp_replace(d, '::([^'']+)', format('::%I.\1', schema))
RegexpReplaceCast(d, schema) ==
    IF \E i \in 1..(Len(d) - 1) : d[i] = "::" /\ d[i + 1] # "'"
    THEN LET i == CHOOSE i \in 1..(Len(d) - 1) :
                    /\ d[i] = "::" /\ d[i + 1] # "'"
                    /\ \A m \in 1..(i - 1) : ~(d[m] = "::" /\ d[m + 1] # "'")
         IN SubSeq(d, 1, i) \o QuoteIdent(schema) \o <<".">> \o SubSeq(d, i + 1, Len(d))
    ELSE d

\* regexp_replace(def, 'REFERENCES ([^"''\s]+)', 'REFERENCES ' || quote_ident(schema) || '.' || '\1')
RegexpReplaceReferences(def, schema) ==
    IF \E i \in 1..(Len(def) - 1) : def[i] = "REFERENCES " /\ def[i + 1] \notin {"'", "\"", " "}
    THEN LET i == CHOOSE i \in 1..(Len(def) - 1) :
                    /\ def[i] = "REFERENCES " /\ def[i + 1] \notin {"'", "\"", " "}
                    /\ \A m \in 1..(i - 1) :
                          ~(def[m] = "REFERENCES " /\ def[m + 1] \notin {"'", "\"", " "})
         IN SubSeq(def, 1, i) \o QuoteIdent(schema) \o <<".">> \o SubSeq(def, i + 1, Len(def))
    ELSE def

\* The CASE expression sequence_name of the query of get_table_sequences, for
\* a column_default that is LIKE 'nextval(%'.
sequence_name(schema, column_default) ==
    IF LikeNextvalDot(column_default)
    THEN RegexpReplaceNextval(column_default, <<")">>)
    ELSE <<schema, ".">> \o RegexpReplaceNextval(column_default, <<")">>)

\* The sequence_name values of the rows of the query of get_table_sequences
\* (SELECT DISTINCT, no ORDER BY).
get_table_sequences(schema, table) ==
    LET cols == SrcColumns(schema, table)
    IN {sequence_name(schema, cols[k].column_default) :
          k \in {k \in 1..Len(cols) : LikeNextval(cols[k].column_default)}}

\* One column of the CREATE TABLE text of get_table_ddl.
ColumnDdl(schema, c) ==
    QuoteIdent(c.column_name) \o <<" ">>
    \o (IF c.data_type = "USER-DEFINED"
        THEN QuoteIdent(schema) \o <<".", c.typname>>
        ELSE <<c.data_type>>)
    \o (IF c.character_maximum_length # <<>>
        THEN <<"(">> \o c.character_maximum_length \o <<")">>
        ELSE <<>>)
    \o (IF c.is_nullable = "NO" THEN <<" NOT NULL">> ELSE <<>>)
    \o (IF c.column_default = <<>> THEN <<>>
        ELSE <<" DEFAULT ">> \o
             (IF LikeNextval(c.column_default)
              THEN <<"nextval(", "'">> \o QuoteIdent(schema) \o <<".">>
                   \o RegexpReplaceNextval(c.column_default, <<"::", "regclass", ")">>)
                   \o <<"'", "::", "regclass", ")">>
              ELSE IF LikeCast(c.column_default)
              THEN RegexpReplaceCast(c.column_default, schema)
              ELSE c.column_default))

\* The text the query of get_table_ddl returns (<<>>: no row).
get_table_ddl(schema, table) ==
    LET cols == SrcColumns(schema, table)
    IN IF <<schema, table>> \notin SrcRelations \/ cols = <<>> THEN <<>>
       ELSE <<"CREATE TABLE ">> \o QuoteIdent(schema) \o <<".">> \o QuoteIdent(table)
            \o <<" (">>
            \o JoinWith([k \in 1..Len(cols) |-> ColumnDdl(schema, cols[k])], <<", ">>)
            \o <<")", ";">>

\* The rows of the query of get_partition_ddl (<<>>: a NULL row): the alias
\* "parent" is joined on inhrelid and the alias "child" on inhparent.
get_partition_ddl(schema, table) ==
    {IF PartBound(r.inhparent) = <<>> THEN <<>>
     ELSE <<"CREATE TABLE ">> \o QuoteIdent(schema) \o <<".">> \o QuoteIdent(r.inhparent)
          \o <<" PARTITION OF ">> \o QuoteIdent(schema) \o <<".">> \o QuoteIdent(table)
          \o <<" FOR VALUES ">> \o PartBound(r.inhparent) \o <<";">> :
       r \in {r \in SrcInherits : r.inhrelid = table /\ schema = source_schema}}

\* The rows of the query of get_index_ddl.
get_index_ddl(schema, table) == {d \o <<";">> : d \in SrcIndexes(schema, table)}

\* One row of the query of get_constraint_ddl.
ConstraintDdl(schema, table, con) ==
    <<"ALTER TABLE ">> \o QuoteIdent(schema) \o <<".">> \o QuoteIdent(table)
    \o <<" ADD CONSTRAINT ">> \o QuoteIdent(con.conname) \o <<" ">>
    \o (IF con.contype = "f"
        THEN RegexpReplaceReferences(con.constraint_def, schema)
        ELSE con.constraint_def)
    \o (IF con.condeferrable THEN <<" DEFERRABLE">> ELSE <<>>)
    \o (IF con.condeferred THEN <<" INITIALLY DEFERRED">> ELSE <<>>)
    \o (IF ~con.convalidated THEN <<" NOT VALID">> ELSE <<>>)
    \o <<";">>

get_constraint_ddl(schema, table) ==
    {ConstraintDdl(schema, table, con) : con \in SrcConstraints(schema, table)}

SequenceClause ==
    <<" INCREMENT ", "1", " MINVALUE ", "1", " MAXVALUE ", "9223372036854775807",
      " START ", "1", ";">>

\* get_sequence_ddl: the row of information_schema.sequences, or the default
\* text when there is none (schema and sequence are texts).
get_sequence_ddl(schema, sequence) ==
    IF \E q \in SrcSequences : <<q[1]>> = schema /\ <<q[2]>> = sequence
    THEN <<"CREATE SEQUENCE ">> \o QuoteIdentS(schema) \o <<".">> \o QuoteIdentS(sequence)
         \o SequenceClause
    ELSE <<"CREATE SEQUENCE ">> \o schema \o <<".">> \o sequence \o SequenceClause

\* ------------------------------------------------------------- DDL rewriter

prepare_ddl(schema, ddl) ==
    IF schema = "public" THEN Replace(ddl, <<"public", ".">>, <<TargetSchema, ".">>) ELSE ddl

built_in_types ==
    <<"text", "varchar", "character varying", "bigint", "integer", "int4", "int8", "jsonb",
      "timestamp", "boolean", "bool", "date", "time", "uuid", "numeric", "double precision",
      "real", "smallint", "interval", "bytea", "inet", "cidr", "macaddr", "money", "point",
      "line", "lseg", "box", "path", "polygon", "circle">>

RECURSIVE CleanFrom(_, _)
CleanFrom(ddl, k) ==
    IF k > Len(built_in_types) THEN ddl
    ELSE LET pattern == <<TargetSchema, ".", built_in_types[k]>>
             cleaned_ddl == Replace(ddl, pattern, <<built_in_types[k]>>)
         IN IF cleaned_ddl = ddl THEN CleanFrom(ddl, k + 1) ELSE CleanFrom(cleaned_ddl, k + 1)

clean_type_references(ddl) == CleanFrom(ddl, 1)

prepare_table_ddl(schema, ddl) ==
    clean_type_references(
        IF schema = "public" THEN Replace(ddl, <<"public", ".">>, <<TargetSchema, ".">>)
        ELSE ddl)

\* extract_sequence_parts: <<seq_schema, seq_name>>, two texts.
extract_sequence_parts(sequence, default_schema) ==
    LET parts == Split(sequence, ".")
    IN IF Len(parts) > 1 THEN <<parts[1], parts[2]>> ELSE <<<<default_schema>>, sequence>>

\* The cleaning of the sequence name in create_sequence.
clean_sequence(sequence) ==
    Replace(Replace(Replace(sequence, <<"nextval(", "'">>, <<>>),
                    <<"'", "::", "regclass", ")">>, <<>>),
            <<"'">>, <<>>)

\* ------------------------------------------------------ the target database

\* The target database: its schemas, relations (tables, sequences and indexes
\* share one name space per schema), constraints and enum types.  The answer
\* to a statement is "ok", "exists" (an error whose message contains
\* "already exists") or "error" (any other error).
Rel(schema, name, kind, on, cols) ==
    [schema |-> schema, name |-> name, kind |-> kind, on |-> on, cols |-> cols]

Delims ==
    {" (", ";", "(", ")", ", ", " ", " INCREMENT ", " ADD CONSTRAINT ", " USING btree (",
     " PARTITION OF ", " FOR VALUES ", " ON ", " NOT NULL", " DEFAULT ", "'",
     " RESTART IDENTITY CASCADE"}

\* The end of the name that starts at position p of a statement.
NameEnd(stmt, p) ==
    IF \E q \in p..Len(stmt) : stmt[q] \in Delims
    THEN CHOOSE q \in p..Len(stmt) :
            stmt[q] \in Delims /\ \A m \in p..(q - 1) : stmt[m] \notin Delims
    ELSE Len(stmt) + 1

\* The name at position p, split at the dots.
NameAt(stmt, p) == Split(SubSeq(stmt, p, NameEnd(stmt, p) - 1), ".")

\* One or two plain identifiers: name or schema.name.
ValidName(parts) ==
    /\ Len(parts) \in {1, 2}
    /\ \A k \in 1..Len(parts) :
          Len(parts[k]) = 1 /\ parts[k][1] \in PlainIdents \cup Range(built_in_types)

SchemaOf(parts) == IF Len(parts) = 2 THEN parts[1][1] ELSE "public"
NameOf(parts) == parts[Len(parts)][1]

HasRel(d, schema, name) == \E r \in d.rels : r.schema = schema /\ r.name = name
HasKind(d, schema, name, kind) ==
    \E r \in d.rels : r.schema = schema /\ r.name = name /\ r.kind = kind

\* A type reference of a column or a cast names a built-in type or an existing enum.
TypeOk(d, parts) ==
    /\ ValidName(parts)
    /\ \/ Len(parts) = 1 /\ parts[1][1] \in Range(built_in_types)
       \/ \E t \in d.types : t.schema = SchemaOf(parts) /\ t.name = NameOf(parts)

\* The DEFAULT expression of a column can be evaluated: the sequence of a
\* nextval('...'::regclass) exists, the type of a cast exists.
DefaultOk(d, def) ==
    IF LikeNextval(def)
    THEN /\ Len(def) >= 3 /\ def[2] = "'"
         /\ LET parts == NameAt(def, 3)
            IN ValidName(parts) /\ HasKind(d, SchemaOf(parts), NameOf(parts), "seq")
    ELSE IF LikeCast(def)
    THEN LET i == CHOOSE i \in 1..Len(def) : def[i] = "::"
         IN TypeOk(d, NameAt(def, i + 1))
    ELSE TRUE

\* Position of the first occurrence of token t in s (0: none).
IndexOfTok(s, t) ==
    IF \E k \in 1..Len(s) : s[k] = t
    THEN CHOOSE k \in 1..Len(s) : s[k] = t /\ \A m \in 1..(k - 1) : s[m] # t
    ELSE 0

\* One column definition of a CREATE TABLE: name, type, NOT NULL, DEFAULT.
ParseColumn(seg) ==
    LET dpos == IndexOfTok(seg, " DEFAULT ")
    IN [name |-> seg[1],
        type |-> NameAt(seg, 3),
        notnull |-> \E k \in 1..Len(seg) : seg[k] = " NOT NULL",
        default |-> IF dpos = 0 THEN <<>> ELSE SubSeq(seg, dpos + 1, Len(seg))]

\* The column definitions between " (" and ");" of a CREATE TABLE.
ParseColumns(stmt) ==
    LET open == IndexOfTok(stmt, " (")
        segs == Split(SubSeq(stmt, open + 1, Len(stmt) - 2), ", ")
    IN [k \in 1..Len(segs) |-> ParseColumn(segs[k])]

\* A quoted identifier names what is between its quotes, whatever its letters.
IsQuoted(part) == Len(part) = 3 /\ part[1] = "\"" /\ part[3] = "\""
Unquoted(part) == IF IsQuoted(part) THEN <<part[2]>> ELSE part

\* One or two identifiers, each plain or quoted.
ValidQuotedName(written) ==
    /\ Len(written) \in {1, 2}
    /\ \A k \in 1..Len(written) : IsQuoted(written[k]) \/ ValidName(<<written[k]>>)

ExecCreateSequence(d, stmt) ==
    LET written == NameAt(stmt, 2)
        parts == [k \in 1..Len(written) |-> Unquoted(written[k])]
    IN IF ~ValidQuotedName(written) \/ SchemaOf(parts) \notin d.schemas
       THEN [res |-> "error", db |-> d]
       ELSE IF HasRel(d, SchemaOf(parts), NameOf(parts))
       THEN [res |-> "exists", db |-> d]
       ELSE [res |-> "ok",
             db |-> [d EXCEPT !.rels =
                        @ \cup {Rel(SchemaOf(parts), NameOf(parts), "seq", "", <<>>)}]]

ExecCreateTable(d, stmt) ==
    LET parts == NameAt(stmt, 2)
        open == IndexOfTok(stmt, " (")
    IN IF \/ ~ValidName(parts)
          \/ SchemaOf(parts) \notin d.schemas
          \/ open = 0
          \/ IndexOfTok(stmt, " PARTITION OF ") # 0
       THEN [res |-> "error", db |-> d]
       ELSE IF HasRel(d, SchemaOf(parts), NameOf(parts))
       THEN [res |-> "exists", db |-> d]
       ELSE LET cols == ParseColumns(stmt)
            IN IF \A k \in 1..Len(cols) :
                     TypeOk(d, cols[k].type) /\ DefaultOk(d, cols[k].default)
               THEN [res |-> "ok",
                     db |-> [d EXCEPT !.rels =
                               @ \cup {Rel(SchemaOf(parts), NameOf(parts), "table", "",
                                           [k \in 1..Len(cols) |->
                                              [name |-> cols[k].name,
                                               notnull |-> cols[k].notnull,
                                               hasdefault |-> cols[k].default # <<>>,
                                               type |-> cols[k].type]])}]]
               ELSE [res |-> "error", db |-> d]

ExecCreateIndex(d, stmt) ==
    LET tab == NameAt(stmt, 4)
    IN IF \/ Len(stmt) < 4 \/ stmt[3] # " ON "
          \/ ~ValidName(tab)
          \/ ~HasKind(d, SchemaOf(tab), NameOf(tab), "table")
       THEN [res |-> "error", db |-> d]
       ELSE IF HasRel(d, SchemaOf(tab), stmt[2])
       THEN [res |-> "exists", db |-> d]
       ELSE [res |-> "ok",
             db |-> [d EXCEPT !.rels =
                        @ \cup {Rel(SchemaOf(tab), stmt[2],
                                    IF stmt[1] = "CREATE UNIQUE INDEX " THEN "uindex" ELSE "index",
                                    NameOf(tab), <<>>)}]]

ExecAddConstraint(d, stmt) ==
    LET tab == NameAt(stmt, 2)
        cpos == IndexOfTok(stmt, " ADD CONSTRAINT ")
        conname == stmt[cpos + 1]
        kind == stmt[cpos + 3]
        rpos == IndexOfTok(stmt, "REFERENCES ")
        ref == NameAt(stmt, rpos + 1)
        has == \E c \in d.cons :
                  c.schema = SchemaOf(tab) /\ c.table = NameOf(tab) /\ c.name = conname
        added == [d EXCEPT !.cons =
                     @ \cup {[schema |-> SchemaOf(tab), table |-> NameOf(tab),
                              name |-> conname,
                              col |-> stmt[cpos + 4],
                              refs |-> IF kind = "FOREIGN KEY (" /\ rpos # 0
                                       THEN <<SchemaOf(ref), NameOf(ref),
                                              stmt[NameEnd(stmt, rpos + 1) + 1]>>
                                       ELSE <<>>]}]
    IN IF \/ cpos = 0 \/ Len(stmt) < cpos + 4
          \/ ~ValidName(tab)
          \/ ~HasKind(d, SchemaOf(tab), NameOf(tab), "table")
       THEN [res |-> "error", db |-> d]
       ELSE IF has THEN [res |-> "exists", db |-> d]
       ELSE IF kind = "PRIMARY KEY ("
       THEN IF HasRel(d, SchemaOf(tab), conname)
            THEN [res |-> "exists", db |-> d]
            ELSE [res |-> "ok",
                  db |-> [added EXCEPT !.rels =
                            @ \cup {Rel(SchemaOf(tab), conname, "uindex", NameOf(tab), <<>>)}]]
       ELSE IF kind = "FOREIGN KEY ("
       THEN IF /\ rpos # 0
               /\ ValidName(ref)
               /\ HasKind(d, SchemaOf(ref), NameOf(ref), "table")
               /\ \E r \in d.rels :
                     r.schema = SchemaOf(ref) /\ r.kind = "uindex" /\ r.on = NameOf(ref)
            THEN [res |-> "ok", db |-> added]
            ELSE [res |-> "error", db |-> d]
       ELSE [res |-> "ok", db |-> added]

\* The target's answer to a statement of the table migrator.
Exec(d, stmt) ==
    IF stmt = <<>> THEN [res |-> "error", db |-> d]
    ELSE IF stmt[1] = "CREATE SEQUENCE " THEN ExecCreateSequence(d, stmt)
    ELSE IF stmt[1] = "CREATE TABLE " THEN ExecCreateTable(d, stmt)
    ELSE IF stmt[1] \in {"CREATE UNIQUE INDEX ", "CREATE INDEX "} THEN ExecCreateIndex(d, stmt)
    ELSE IF stmt[1] = "ALTER TABLE " THEN ExecAddConstraint(d, stmt)
    ELSE [res |-> "error", db |-> d]

\* DROP SCHEMA IF EXISTS s CASCADE; CREATE SCHEMA IF NOT EXISTS s;
ExecDropSchema(d, s) ==
    [schemas |-> d.schemas \ {s},
     rels |-> {r \in d.rels : r.schema # s},
     cons |-> {c \in d.cons : c.schema # s},
     types |-> {t \in d.types : t.schema # s},
     rows |-> IF s = TargetSchema THEN NoRows ELSE d.rows,
     nextid |-> IF s = TargetSchema THEN FirstIds ELSE d.nextid]

ExecCreateSchema(d, s) == [d EXCEPT !.schemas = @ \cup {s}]

\* SELECT EXISTS (... information_schema.sequences WHERE sequence_schema = $1
\* AND sequence_name = $2), the parameters being texts.
SequenceExists(d, schema, sequence) ==
    \E r \in d.rels : r.kind = "seq" /\ <<r.schema>> = schema /\ <<r.name>> = sequence

\* ------------------------------------------------------------ table migrator

\* A stage of TableMigrator::migrate is run on a record st:
\*   db   the target database,
\*   ents the log entries of the stage so far,
\*   n    the database round trips made so far (source queries and target statements),
\*   err  "" or the error the stage returned.
\* The round trip number f fails with an injected error (f = 0: none does).
Entry(ev, tbl, stage, stmt, res) ==
    [ev |-> ev, tbl |-> tbl, stage |-> stage, stmt |-> stmt, res |-> res]

Begin(d) == [db |-> d, ents |-> <<>>, n |-> 0, err |-> ""]

\* A query on the source connection; only its failure is recorded.
SourceQuery(st, f) ==
    IF st.n + 1 = f THEN [st EXCEPT !.n = @ + 1, !.err = "QueryExecution"]
    ELSE [st EXCEPT !.n = @ + 1]

\* sqlx::query(stmt).execute(&self.target_conn): the answer of the target.
TargetAnswer(st, stmt, f) ==
    IF st.n + 1 = f THEN [res |-> "error", db |-> st.db] ELSE Exec(st.db, stmt)

\* execute(...).map_err(|err| CustomError::QueryExecution)?
Execute(st, tbl, stage, stmt, f) ==
    LET a == TargetAnswer(st, stmt, f)
    IN [db |-> a.db,
        ents |-> Append(st.ents, Entry("exec", tbl, stage, stmt, a.res)),
        n |-> st.n + 1,
        err |-> IF a.res = "ok" THEN "" ELSE "QueryExecution"]

\* migrate_constraints with every error propagated, as in the other stages.
ExecuteConstraintStrict(st, tbl, stage, stmt, f) == Execute(st, tbl, stage, stmt, f)

\* The match of migrate_constraints: an error whose text contains
\* "already exists" is logged and the loop goes on.
ExecuteConstraint(st, tbl, stage, stmt, f) ==
    LET a == TargetAnswer(st, stmt, f)
    IN [db |-> a.db,
        ents |-> Append(st.ents, Entry("exec", tbl, stage, stmt, a.res)),
        n |-> st.n + 1,
        err |-> IF a.res \in {"ok", "exists"} THEN "" ELSE "QueryExecution"]

\* create_sequence(schema, sequence), both texts.
create_sequence(st, tbl, schema, sequence, f) ==
    LET clean == clean_sequence(sequence)
        check == <<"SELECT EXISTS information_schema.sequences ", TargetSchema, ".">> \o clean
        st1 == IF st.n + 1 = f
               THEN [st EXCEPT !.n = @ + 1, !.err = "QueryExecution",
                               !.ents = Append(@, Entry("exec", tbl, "sequences", check, "error"))]
               ELSE [st EXCEPT !.n = @ + 1,
                               !.ents = Append(@, Entry("exec", tbl, "sequences", check, "ok"))]
    IN IF st1.err # "" THEN st1
       ELSE IF SequenceExists(st1.db, <<TargetSchema>>, clean) THEN st1
       ELSE LET st2 == SourceQuery(st1, f)
                sequence_ddl == get_sequence_ddl(schema, clean)
                modified_ddl == Replace(sequence_ddl, schema \o <<".">>, <<TargetSchema, ".">>)
            IN IF st2.err # "" THEN st2
               ELSE Execute(st2, tbl, "sequences", modified_ddl, f)

RECURSIVE CreateSequencesFrom(_, _, _, _, _, _)
CreateSequencesFrom(st, tbl, sequences, k, schema, f) ==
    IF k > Len(sequences) \/ st.err # "" THEN st
    ELSE LET parts == extract_sequence_parts(sequences[k], schema)
         IN CreateSequencesFrom(create_sequence(st, tbl, parts[1], parts[2], f),
                                tbl, sequences, k + 1, schema, f)

\* migrate_sequences; sequences are the rows of get_table_sequences in the
\* order the source returned them.
migrate_sequences(d, schema, table, sequences, f) ==
    LET st == SourceQuery(Begin(d), f)
    IN CreateSequencesFrom(st, <<schema, table>>, sequences, 1, schema, f)

\* migrate_table_structure with a missing DDL taken as nothing to do.
migrate_table_structure_lenient(d, schema, table, f) ==
    LET st == SourceQuery(Begin(d), f)
        table_ddl == get_table_ddl(schema, table)
    IN IF st.err # "" \/ table_ddl = <<>> THEN st
       ELSE Execute(st, <<schema, table>>, "table", prepare_table_ddl(schema, table_ddl), f)

\* migrate_table_structure
migrate_table_structure(d, schema, table, f) ==
    LET st == SourceQuery(Begin(d), f)
        table_ddl == get_table_ddl(schema, table)
    IN IF st.err # "" THEN st
       ELSE IF table_ddl = <<>> THEN [st EXCEPT !.err = "DbTableStructure"]
       ELSE Execute(st, <<schema, table>>, "table", prepare_table_ddl(schema, table_ddl), f)

RECURSIVE ExecuteAllFrom(_, _, _, _, _, _, _)
ExecuteAllFrom(st, tbl, stage, schema, ddls, k, f) ==
    IF k > Len(ddls) \/ st.err # "" THEN st
    ELSE ExecuteAllFrom(Execute(st, tbl, stage, prepare_ddl(schema, ddls[k]), f),
                        tbl, stage, schema, ddls, k + 1, f)

\* migrate_partitions; a NULL row cannot be decoded into a String and fails the query.
migrate_partitions(d, schema, table, partitions, f) ==
    LET st == SourceQuery(Begin(d), f)
    IN IF st.err # "" THEN st
       ELSE IF \E k \in 1..Len(partitions) : partitions[k] = <<>>
       THEN [st EXCEPT !.err = "QueryExecution"]
       ELSE ExecuteAllFrom(st, <<schema, table>>, "partitions", schema, partitions, 1, f)

\* migrate_indexes
migrate_indexes(d, schema, table, indexes, f) ==
    ExecuteAllFrom(SourceQuery(Begin(d), f), <<schema, table>>, "indexes", schema, indexes, 1, f)

RECURSIVE ConstraintsFrom(_, _, _, _, _, _)
ConstraintsFrom(st, tbl, schema, constraints, k, f) ==
    IF k > Len(constraints) \/ st.err # "" THEN st
    ELSE ConstraintsFrom(
             ExecuteConstraint(st, tbl, "constraints", prepare_ddl(schema, constraints[k]), f),
             tbl, schema, constraints, k + 1, f)

\* migrate_constraints
migrate_constraints(d, schema, table, constraints, f) ==
    ConstraintsFrom(SourceQuery(Begin(d), f), <<schema, table>>, schema, constraints, 1, f)

\* -------------------------------------------------------- structure migrator

SortedSchemas == <<"app", "other", "public">>

\* The rows of one schema in list_all_tables, ORDER BY relname.
TablesOfSchema(s) ==
    LET In(n) == <<s, n>> \in SrcRelations
        sel == SelectSeq(SortedNames, In)
    IN [k \in 1..Len(sel) |-> [schema |-> s, table_name |-> sel[k]]]

\* The rows of the query of list_all_tables, ORDER BY nspname, relname.
list_all_tables ==
    Flatten([i \in 1..Len(SortedSchemas) |-> TablesOfSchema(SortedSchemas[i])])

\* skip_table as the trait's default method would decide it.
skip_table_default(table_name) == DefaultPatternMatch(NameChars(table_name))

\* StructureMigrator::skip_table
skip_table(table_name) ==
    IF copy_staging_tables = "true" THEN FALSE
    ELSE StagingPatternMatch(NameChars(table_name)) \/ table_name \in {"test_tab"}

\* The text of the statement of create_enum.
CreateEnumStmt(e) ==
    <<"DO $$ BEGIN IF NOT EXISTS (SELECT 1 FROM pg_type t JOIN pg_namespace n ",
      "ON n.oid = t.typnamespace WHERE t.typname = ", "'", e.enum_name, "'",
      " AND n.nspname = ", "'", TargetSchema, "'", ") THEN CREATE TYPE ",
      TargetSchema, ".", e.enum_name, " AS ENUM (">>
    \o JoinWith([k \in 1..Len(e.enum_values) |-> <<"'", e.enum_values[k], "'">>], <<", ">>)
    \o <<")", ";", " END IF; END $$;">>

\* The target's answer to the statement of create_enum.
ExecCreateEnum(d, e) ==
    IF \E t \in d.types : t.schema = TargetSchema /\ t.name = e.enum_name
    THEN [res |-> "ok", db |-> d]
    ELSE IF TargetSchema \notin d.schemas THEN [res |-> "error", db |-> d]
    ELSE [res |-> "ok",
          db |-> [d EXCEPT !.types =
                     @ \cup {[schema |-> TargetSchema, name |-> e.enum_name,
                              values |-> e.enum_values]}]]

NoTable == <<"", "">>
Table == <<tables[idx].schema, tables[idx].table_name>>

\* An injected error is allowed while the budget lasts.
MayFail == faults < MaxFaults
Faults(f) == IF f > 0 THEN faults + 1 ELSE faults

\* migrate returns Err: the run is over.
Abort ==
    /\ pc' = "done"
    /\ result' = "Err"

\* recreate_schema: DROP SCHEMA, then CREATE SCHEMA.
RecreateSchema ==
    /\ pc = "recreate_schema"
    /\ \E f \in 0..(IF MayFail THEN 2 ELSE 0) :
          LET drop == <<"DROP SCHEMA IF EXISTS ", TargetSchema, " CASCADE;">>
              create == <<"CREATE SCHEMA IF NOT EXISTS ", TargetSchema, ";">>
              d1 == ExecDropSchema(db, TargetSchema)
          IN /\ faults' = Faults(f)
             /\ IF f = 1
                THEN /\ log' = Append(log, Entry("exec", NoTable, "schema", drop, "error"))
                     /\ Abort
                     /\ UNCHANGED db
                ELSE IF f = 2
                THEN /\ log' = log \o <<Entry("exec", NoTable, "schema", drop, "ok"),
                                        Entry("exec", NoTable, "schema", create, "error")>>
                     /\ db' = d1
                     /\ Abort
                ELSE /\ log' = log \o <<Entry("exec", NoTable, "schema", drop, "ok"),
                                        Entry("exec", NoTable, "schema", create, "ok")>>
                     /\ db' = ExecCreateSchema(d1, TargetSchema)
                     /\ pc' = "list_enums"
                     /\ UNCHANGED result
    /\ UNCHANGED <<source_schema, copy_staging_tables, in_path, src_tables, enums, tables,
                   idx, success, failures, skipped>>
    /\ StructureFrame

\* let enums = self.list_all_enums().await?;
ListAllEnums ==
    /\ pc = "list_enums"
    /\ \E f \in 0..(IF MayFail THEN 1 ELSE 0) :
          /\ faults' = Faults(f)
          /\ IF f = 1
             THEN Abort /\ UNCHANGED <<enums, idx>>
             ELSE /\ enums' = SrcEnums
                  /\ idx' = 1
                  /\ pc' = "create_enum"
                  /\ UNCHANGED result
    /\ UNCHANGED <<source_schema, copy_staging_tables, in_path, src_tables, db, tables,
                   success, failures, skipped, log>>
    /\ StructureFrame

\* One turn of the loop over the enums with the result of create_enum dropped.
CreateEnumUnchecked ==
    /\ pc = "create_enum"
    /\ idx <= Len(enums)
    /\ \E f \in 0..(IF MayFail THEN 1 ELSE 0) :
          LET a == IF f = 1 THEN [res |-> "error", db |-> db]
                   ELSE ExecCreateEnum(db, enums[idx])
          IN /\ faults' = Faults(f)
             /\ log' = Append(log, Entry("exec", NoTable, "enum",
                                         CreateEnumStmt(enums[idx]), a.res))
             /\ db' = a.db
             /\ idx' = idx + 1
    /\ UNCHANGED <<source_schema, copy_staging_tables, in_path, src_tables, enums, tables,
                   success, failures, skipped, pc, result>>
    /\ StructureFrame

\* One turn of the loop over the enums: self.create_enum(&enum_info).await?
CreateEnum ==
    /\ pc = "create_enum"
    /\ idx <= Len(enums)
    /\ \E f \in 0..(IF MayFail THEN 1 ELSE 0) :
          LET a == IF f = 1 THEN [res |-> "error", db |-> db]
                   ELSE ExecCreateEnum(db, enums[idx])
          IN /\ faults' = Faults(f)
             /\ log' = Append(log, Entry("exec", NoTable, "enum",
                                         CreateEnumStmt(enums[idx]), a.res))
             /\ db' = a.db
             /\ IF a.res = "ok"
                THEN idx' = idx + 1 /\ UNCHANGED <<pc, result>>
                ELSE Abort /\ UNCHANGED idx
    /\ UNCHANGED <<source_schema, copy_staging_tables, in_path, src_tables, enums, tables,
                   success, failures, skipped>>
    /\ StructureFrame

\* let tables = self.list_all_tables().await?; ... TableMigrator::new(&self.config).await?
ListAllTables ==
    /\ pc = "create_enum"
    /\ idx > Len(enums)
    /\ \E f \in 0..(IF MayFail THEN 2 ELSE 0) :
          /\ faults' = Faults(f)
          /\ IF f = 1
             THEN Abort /\ UNCHANGED <<tables, idx>>
             ELSE /\ tables' = list_all_tables
                  /\ IF f = 2
                     THEN Abort /\ UNCHANGED idx
                     ELSE idx' = 1 /\ pc' = "loop" /\ UNCHANGED result
    /\ UNCHANGED <<source_schema, copy_staging_tables, in_path, src_tables, db, enums,
                   success, failures, skipped, log>>
    /\ StructureFrame

\* The head of the loop without the schema filter.
NextTableAnySchema ==
    /\ pc = "loop"
    /\ idx <= Len(tables)
    /\ IF skip_table(tables[idx].table_name)
       THEN /\ skipped' = Append(skipped, tables[idx])
            /\ idx' = idx + 1
            /\ UNCHANGED pc
       ELSE pc' = "sequences" /\ UNCHANGED <<idx, skipped>>
    /\ UNCHANGED <<source_schema, copy_staging_tables, in_path, src_tables, db, enums,
                   tables, success, failures, log, result, faults>>
    /\ StructureFrame

\* The head of the loop over the tables: the schema filter, the skip rule, and
\* the call of TableMigrator::migrate.
NextTable ==
    /\ pc = "loop"
    /\ idx <= Len(tables)
    /\ IF tables[idx].schema # source_schema
       THEN idx' = idx + 1 /\ UNCHANGED <<pc, skipped>>
       ELSE IF skip_table(tables[idx].table_name)
       THEN /\ skipped' = Append(skipped, tables[idx])
            /\ idx' = idx + 1
            /\ UNCHANGED pc
       ELSE pc' = "sequences" /\ UNCHANGED <<idx, skipped>>
    /\ UNCHANGED <<source_schema, copy_staging_tables, in_path, src_tables, db, enums,
                   tables, success, failures, log, result, faults>>
    /\ StructureFrame

\* The return of a stage with its error dropped: the next stage runs regardless.
StageReturnsUnchecked(st, stage, next) ==
    /\ db' = st.db
    /\ log' = log \o st.ents
              \o <<Entry("return", Table, stage, <<>>, IF st.err = "" THEN "ok" ELSE st.err)>>
    /\ IF next = "loop"
       THEN /\ success' = Append(success, tables[idx])
            /\ idx' = idx + 1
            /\ pc' = "loop"
       ELSE /\ pc' = next
            /\ UNCHANGED <<idx, success>>
    /\ UNCHANGED <<source_schema, copy_staging_tables, in_path, src_tables, enums, tables,
                   skipped, result, failures>>
    /\ StructureFrame

\* The return of a stage with the table's error propagated by `?` out of
\* StructureMigrator::migrate.
StageReturnsPropagated(st, stage, next) ==
    /\ db' = st.db
    /\ log' = log \o st.ents
              \o <<Entry("return", Table, stage, <<>>, IF st.err = "" THEN "ok" ELSE st.err)>>
    /\ IF st.err # ""
       THEN /\ pc' = "done"
            /\ result' = "Err"
            /\ UNCHANGED <<idx, success, failures>>
       ELSE IF next = "loop"
       THEN /\ success' = Append(success, tables[idx])
            /\ idx' = idx + 1
            /\ pc' = "loop"
            /\ UNCHANGED <<failures, result>>
       ELSE /\ pc' = next
            /\ UNCHANGED <<idx, success, failures, result>>
    /\ UNCHANGED <<source_schema, copy_staging_tables, in_path, src_tables, enums, tables,
                   skipped>>
    /\ StructureFrame

\* A stage of TableMigrator::migrate returned st: on Ok the next stage runs (after
\* the last one the table is pushed to success), on Err the `?` returns it to
\* StructureMigrator::migrate, which pushes the table to failures.
StageReturns(st, stage, next) ==
    /\ db' = st.db
    /\ log' = log \o st.ents
              \o <<Entry("return", Table, stage, <<>>, IF st.err = "" THEN "ok" ELSE st.err)>>
    /\ IF st.err # ""
       THEN /\ failures' = Append(failures, tables[idx])
            /\ idx' = idx + 1
            /\ pc' = "loop"
            /\ UNCHANGED success
       ELSE IF next = "loop"
       THEN /\ success' = Append(success, tables[idx])
            /\ idx' = idx + 1
            /\ pc' = "loop"
            /\ UNCHANGED failures
       ELSE /\ pc' = next
            /\ UNCHANGED <<idx, success, failures>>
    /\ UNCHANGED <<source_schema, copy_staging_tables, in_path, src_tables, enums, tables,
                   skipped, result>>
    /\ StructureFrame

\* The round trips an injected error may hit: those of the run without one.
FaultPoints(st) == 0..(IF MayFail THEN st.n ELSE 0)

MigrateSequences ==
    /\ pc = "sequences"
    /\ \E sequences \in Perms(get_table_sequences(Table[1], Table[2])) :
       \E f \in FaultPoints(migrate_sequences(db, Table[1], Table[2], sequences, 0)) :
          /\ faults' = Faults(f)
          /\ StageReturns(migrate_sequences(db, Table[1], Table[2], sequences, f),
                          "sequences", "table")

MigrateTableStructure ==
    /\ pc = "table"
    /\ \E f \in FaultPoints(migrate_table_structure(db, Table[1], Table[2], 0)) :
          /\ faults' = Faults(f)
          /\ StageReturns(migrate_table_structure(db, Table[1], Table[2], f),
                          "table", "partitions")

MigratePartitions ==
    /\ pc = "partitions"
    /\ \E partitions \in Perms(get_partition_ddl(Table[1], Table[2])) :
       \E f \in FaultPoints(migrate_partitions(db, Table[1], Table[2], partitions, 0)) :
          /\ faults' = Faults(f)
          /\ StageReturns(migrate_partitions(db, Table[1], Table[2], partitions, f),
                          "partitions", "indexes")

MigrateIndexes ==
    /\ pc = "indexes"
    /\ \E indexes \in Perms(get_index_ddl(Table[1], Table[2])) :
       \E f \in FaultPoints(migrate_indexes(db, Table[1], Table[2], indexes, 0)) :
          /\ faults' = Faults(f)
          /\ StageReturns(migrate_indexes(db, Table[1], Table[2], indexes, f),
                          "indexes", "constraints")

MigrateConstraints ==
    /\ pc = "constraints"
    /\ \E constraints \in Perms(get_constraint_ddl(Table[1], Table[2])) :
       \E f \in FaultPoints(migrate_constraints(db, Table[1], Table[2], constraints, 0)) :
          /\ faults' = Faults(f)
          /\ StageReturns(migrate_constraints(db, Table[1], Table[2], constraints, f),
                          "constraints", "loop")

\* After the loop: the summary is logged and migrate returns Ok(()).
Finish ==
    /\ pc = "loop"
    /\ idx > Len(tables)
    /\ pc' = "done"
    /\ result' = "Ok"
    /\ UNCHANGED <<source_schema, copy_staging_tables, in_path, src_tables, db, enums,
                   tables, idx, success, failures, skipped, log, faults>>
    /\ StructureFrame

\* The target before the run: schema public, possibly a schema named like the
\* source schema, and what an earlier run left in the target schema.
InitialDb(has_source) ==
    [schemas |-> {"public", TargetSchema} \cup (IF has_source THEN {source_schema} ELSE {}),
     rels |-> {Rel(TargetSchema, "users", "table", "", <<[name |-> "id", notnull |-> TRUE, hasdefault |-> FALSE,
                    type |-> <<<<"bigint">>>>]>>)},
     cons |-> {},
     types |-> {},
     rows |-> NoRows,
     nextid |-> FirstIds]

Init ==
    /\ source_schema \in SourceSchemas
    /\ copy_staging_tables \in {"true", "false", "absent"}
    /\ in_path \in BOOLEAN
    /\ src_tables \in {S \in SUBSET Range(SortedNames) : Cardinality(S) <= MaxTables}
    /\ db \in {InitialDb(h) : h \in BOOLEAN}
    /\ pc = "recreate_schema"
    /\ enums = <<>>
    /\ tables = <<>>
    /\ idx = 1
    /\ success = <<>>
    /\ failures = <<>>
    /\ skipped = <<>>
    /\ log = <<>>
    /\ result = "none"
    /\ faults = 0
    /\ RewriterIdle
    /\ DataIdle
    /\ DumpIdle
    /\ MysqlIdle

Next ==
    \/ RecreateSchema
    \/ ListAllEnums
    \/ CreateEnum
    \/ ListAllTables
    \/ NextTable
    \/ MigrateSequences
    \/ MigrateTableStructure
    \/ MigratePartitions
    \/ MigrateIndexes
    \/ MigrateConstraints
    \/ Finish

Spec == Init /\ [][Next]_vars

\* ------------------------------------------------- the sequences stage alone

\* The tables of the loop, in the order of list_all_tables.
SequenceTables == <<"events_2024", "events_2024_01", "users">>

\* A sequence that was created with the quoted name "Events_id_seq", the
\* default of the id column of a partitioned table and of its partitions.
QuotedNextvalDefault(s) ==
    <<"nextval(", "'">> \o (IF in_path THEN <<>> ELSE <<s, ".">>)
    \o <<"\"", "Events_id_seq", "\"", "'", "::", "regclass", ")">>

\* The column defaults the tables of the stage are given.
SequenceDefaults(s) == {NextvalDefault(s, "users_id_seq"), QuotedNextvalDefault(s)}

\* The loop of StructureMigrator::migrate right after recreate_schema, with
\* the sequences stage of each table only.
SequencesInit ==
    /\ source_schema \in SourceSchemas
    /\ copy_staging_tables = "absent"
    /\ in_path \in BOOLEAN
    /\ src_tables \in {{}, {"users"}}
    /\ db \in {ExecCreateSchema(ExecDropSchema(InitialDb(h), TargetSchema), TargetSchema) :
                 h \in BOOLEAN}
    /\ pc = "sequences"
    /\ enums = <<>>
    /\ tables = <<>>
    /\ idx = 1
    /\ success = <<>>
    /\ failures = <<>>
    /\ skipped = <<>>
    /\ log = <<>>
    /\ result = "none"
    /\ faults = 0
    /\ RewriterIdle
    /\ DataIdle
    /\ DumpIdle
    /\ MysqlIdle

\* migrate_sequences of the next table, its id column having one of the defaults.
SequencesOfTable ==
    /\ pc = "sequences"
    /\ idx <= Len(SequenceTables)
    /\ \E t \in {SequenceTables[idx]} :
       \E default \in SequenceDefaults(source_schema) :
          LET sequences == <<sequence_name(source_schema, default)>>
          IN \E f \in FaultPoints(migrate_sequences(db, source_schema, t, sequences, 0)) :
                LET st == migrate_sequences(db, source_schema, t, sequences, f)
                IN /\ faults' = Faults(f)
                   /\ db' = st.db
                   /\ log' = log \o st.ents
                             \o <<Entry("return", <<source_schema, t>>, "sequences", <<>>,
                                        IF st.err = "" THEN "ok" ELSE st.err)>>
                   /\ idx' = idx + 1
    /\ UNCHANGED <<source_schema, copy_staging_tables, in_path, src_tables, pc, enums, tables,
                   success, failures, skipped, result>>
    /\ StructureFrame

SequencesNext == SequencesOfTable

SequencesSpec == SequencesInit /\ [][SequencesNext]_vars

\* ---------------------------------------------------- the rewriter alone

\* Largest number of pieces a modelled DDL text is put together from.
MaxFragments == 3
\* Largest number of rewriter calls made on one text.
MaxCalls == 2

\* The characters of a string.
Chars(str) == [i \in 1..Len(str) |-> SubSeq(str, i, i)]

\* TableMigrator::prepare_ddl on characters, for target schema target.
prepare_ddl_text(target, schema, ddl) ==
    IF schema = "public"
    THEN Replace(ddl, Chars("public."), Chars(target \o "."))
    ELSE ddl

RECURSIVE CleanTextFrom(_, _, _)
CleanTextFrom(target, ddl, k) ==
    IF k > Len(built_in_types) THEN ddl
    ELSE LET pattern == Chars(target \o "." \o built_in_types[k])
             cleaned_ddl == Replace(ddl, pattern, Chars(built_in_types[k]))
         IN IF cleaned_ddl = ddl THEN CleanTextFrom(target, ddl, k + 1)
            ELSE CleanTextFrom(target, cleaned_ddl, k + 1)

\* TableMigrator::clean_type_references on characters, for target schema target.
clean_type_references_text(target, ddl) == CleanTextFrom(target, ddl, 1)

\* Target schema names and the pieces of the texts handed to the rewriter.
TargetNames == {"app_clone", "my_public"}
Fragments == {"public.", "app_clone.", "my_public.", "text", "t", "_kind"}

RECURSIVE TextsOf(_)
TextsOf(n) ==
    IF n = 0 THEN {<<>>}
    ELSE TextsOf(n - 1) \cup {Chars(f) \o x : f \in Fragments, x \in TextsOf(n - 1)}

\* StructureMigrator::migrate is not running.
StructureIdle ==
    /\ source_schema = "public"
    /\ copy_staging_tables = "absent"
    /\ in_path = TRUE
    /\ src_tables = {}
    /\ db = InitialDb(FALSE)
    /\ pc = "off"
    /\ enums = <<>>
    /\ tables = <<>>
    /\ idx = 1
    /\ success = <<>>
    /\ failures = <<>>
    /\ skipped = <<>>
    /\ log = <<>>
    /\ result = "none"
    /\ faults = 0

Call(fn, schema, input, out) ==
    [fn |-> fn, schema |-> schema, input |-> input, output |-> out]

\* self.prepare_ddl(schema, ddl) on the text at hand.
CallPrepareDdl ==
    /\ Len(rw_calls) < MaxCalls
    /\ \E schema \in SourceSchemas :
          LET out == prepare_ddl_text(rw_target, schema, rw_ddl)
          IN /\ rw_calls' = Append(rw_calls, Call("prepare_ddl", schema, rw_ddl, out))
             /\ rw_ddl' = out
    /\ UNCHANGED <<rw_target, structure_vars, data_vars, dump_vars, mysql_vars>>

\* self.clean_type_references(ddl) on the text at hand.
CallCleanTypeReferences ==
    /\ Len(rw_calls) < MaxCalls
    /\ LET out == clean_type_references_text(rw_target, rw_ddl)
       IN /\ rw_calls' = Append(rw_calls, Call("clean_type_references", "", rw_ddl, out))
          /\ rw_ddl' = out
    /\ UNCHANGED <<rw_target, structure_vars, data_vars, dump_vars, mysql_vars>>

RewriterInit ==
    /\ StructureIdle
    /\ DataIdle
    /\ DumpIdle
    /\ MysqlIdle
    /\ rw_target \in TargetNames
    /\ rw_ddl \in TextsOf(MaxFragments)
    /\ rw_calls = <<>>

RewriterNext ==
    \/ CallPrepareDdl
    \/ CallCleanTypeReferences

RewriterSpec == RewriterInit /\ [][RewriterNext]_vars

\* =================================================================== claims

Stages == <<"sequences", "table", "partitions", "indexes", "constraints">>
StageNo(stage) == CHOOSE k \in 1..Len(Stages) : Stages[k] = stage
IsStage(stage) == \E k \in 1..Len(Stages) : Stages[k] = stage

\* The log positions of the statements the table migrator executed on the target.
TableExecs == {p \in 1..Len(log) : log[p].ev = "exec" /\ IsStage(log[p].stage)}
Returns == {p \in 1..Len(log) : log[p].ev = "return"}
Row(tbl) == [schema |-> tbl[1], table_name |-> tbl[2]]

\* C1: within a table the stages run in the order sequences, table body,
\* partitions, indexes, constraints: a statement of a stage is executed on the
\* target only after every earlier stage of that table returned Ok, and after
\* a stage of the table returned an error no statement of the table follows.
C1_StageOrder ==
    \A p \in TableExecs :
        /\ \A k \in 1..(StageNo(log[p].stage) - 1) :
              \E q \in 1..(p - 1) :
                  /\ log[q].ev = "return" /\ log[q].tbl = log[p].tbl
                  /\ log[q].stage = Stages[k] /\ log[q].res = "ok"
        /\ \A q \in 1..(p - 1) :
              (log[q].ev = "return" /\ log[q].tbl = log[p].tbl)
                  => (log[q].res = "ok" /\ StageNo(log[q].stage) < StageNo(log[p].stage))
        /\ \A q \in 1..(p - 1) :
              (log[q].ev = "exec" /\ log[q].tbl = log[p].tbl)
                  => StageNo(log[q].stage) <= StageNo(log[p].stage)

\* A run in which one table went through all five stages with a statement in
\* each of sequences, table, indexes and constraints, and another table failed
\* in an earlier stage.
C1_Witness ==
    /\ pc = "done"
    /\ \E p \in TableExecs :
          /\ log[p].stage = "constraints"
          /\ \A st \in {"sequences", "table", "indexes"} :
                \E q \in TableExecs : log[q].tbl = log[p].tbl /\ log[q].stage = st
    /\ \E q \in Returns : log[q].res # "ok" /\ log[q].stage \in {"sequences", "table", "indexes"}

\* C5: a failure of TableMigrator::migrate for a table is recorded in failures
\* and never ends the run: migrate returns Err only when no table was attempted
\* yet, every table of the source schema before the loop position is in one of
\* the three lists, and when the run is over after the loop it returned Ok.
C5_TableFailureIsolated ==
    /\ \A q \in Returns : log[q].res # "ok" => Row(log[q].tbl) \in Range(failures)
    /\ result = "Err" => \A p \in 1..Len(log) : log[p].tbl = NoTable
    /\ pc \in {"loop", "done"} /\ result # "Err" =>
          \A k \in 1..Len(tables) :
              (k < idx /\ tables[k].schema = source_schema)
                  => tables[k] \in Range(success) \cup Range(failures) \cup Range(skipped)
    /\ pc = "done" /\ result # "Err" => result = "Ok" /\ idx = Len(tables) + 1

\* A finished run in which a table failed and a later table was migrated.
C5_Witness ==
    /\ pc = "done" /\ result = "Ok"
    /\ \E i, j \in 1..Len(tables) :
          i < j /\ tables[i] \in Range(failures) /\ tables[j] \in Range(success)

\* C6: success, failures and skipped are pairwise disjoint, hold only tables of
\* the configured source schema, and no table of another schema reaches the
\* table migrator.
C6_ReportSets ==
    /\ Range(success) \cap Range(failures) = {}
    /\ Range(success) \cap Range(skipped) = {}
    /\ Range(failures) \cap Range(skipped) = {}
    /\ \A r \in Range(success) \cup Range(failures) \cup Range(skipped) :
          r.schema = source_schema /\ <<r.schema, r.table_name>> \in SrcRelations
    /\ \A p \in 1..Len(log) : log[p].tbl # NoTable => log[p].tbl[1] = source_schema
    /\ pc \in {"sequences", "table", "partitions", "indexes", "constraints"}
          => tables[idx].schema = source_schema

\* A finished run past a table of another schema, with the three lists non-empty.
C6_Witness ==
    /\ pc = "done"
    /\ success # <<>> /\ failures # <<>> /\ skipped # <<>>
    /\ \E k \in 1..Len(tables) : tables[k].schema # source_schema

\* The names of the modelled tables that match ^\w+_\d+(_\d+)?$.
StagingNames == {"events_2024", "events_2024_01"}

\* C7: with copy_staging_tables true no table is skipped; otherwise a table of
\* the source schema is skipped exactly when its name matches ^\w+_\d+(_\d+)?$
\* or is test_tab; the table migrator is never invoked for a skipped table.
C7_SkipRule ==
    /\ \A k \in 1..Len(tables) :
          (/\ tables[k].schema = source_schema
           /\ pc \in {"loop", "sequences", "table", "partitions", "indexes", "constraints"}
                 \/ (pc = "done" /\ result = "Ok")
           /\ k < idx \/ (k = idx /\ pc \notin {"loop", "done"}))
              => (tables[k] \in Range(skipped)
                    <=> (/\ copy_staging_tables # "true"
                         /\ tables[k].table_name \in StagingNames \cup {"test_tab"}))
    /\ \A p \in 1..Len(log) : Row(log[p].tbl) \notin Range(skipped)
    /\ copy_staging_tables = "true" => skipped = <<>>

\* Scenario S3, with a table that only the trait's default pattern matches:
\* events_2024 and events_2024_01 are skipped, the other two are migrated.
C7_Witness ==
    /\ pc = "done" /\ result = "Ok"
    /\ copy_staging_tables = "false"
    /\ src_tables = {"events_2024", "events_2024_01", "users"}
    /\ {r.table_name : r \in Range(skipped)} = {"events_2024", "events_2024_01"}
    /\ {log[p].tbl[2] : p \in TableExecs} = {"users"}

\* C10: in migrate_constraints an answer "already exists" is treated as
\* success, so the loop goes on to the remaining constraints; any other error
\* ends the loop at that statement with QueryExecution, which fails the table;
\* a constraint stage that returned Ok executed every constraint of the table.
C10_ConstraintErrors ==
    /\ \A p \in TableExecs :
          log[p].stage = "constraints" =>
              /\ p < Len(log)
              /\ log[p + 1].tbl = log[p].tbl /\ log[p + 1].stage = "constraints"
              /\ log[p].res = "error" =>
                    /\ log[p + 1].ev = "return" /\ log[p + 1].res = "QueryExecution"
                    /\ Row(log[p].tbl) \in Range(failures)
              /\ log[p].res \in {"ok", "exists"} =>
                    \/ log[p + 1].ev = "exec"
                    \/ log[p + 1].ev = "return" /\ log[p + 1].res = "ok"
    /\ \A q \in Returns :
          (log[q].stage = "constraints" /\ log[q].res = "ok") =>
              {log[p].stmt : p \in {p \in TableExecs : log[p].tbl = log[q].tbl
                                                      /\ log[p].stage = "constraints"}}
                  = {prepare_ddl(log[q].tbl[1], c) :
                        c \in get_constraint_ddl(log[q].tbl[1], log[q].tbl[2])}

\* A constraint answered "already exists" and the next constraint of the table
\* was executed; in the same run a constraint of another table failed otherwise.
C10_Witness ==
    /\ \E p \in TableExecs :
          /\ log[p].stage = "constraints" /\ log[p].res = "exists"
          /\ log[p + 1].ev = "exec" /\ log[p + 1].res = "ok"
    /\ \E p \in TableExecs : log[p].stage = "constraints" /\ log[p].res = "error"

\* The tables of the source schema that the loop does not skip.
Visited == {t \in Range(tables) : t.schema = source_schema /\ ~skip_table(t.table_name)}

\* The columns of a CREATE TABLE statement and of a created table agree with
\* the source columns in name, position and nullability.
SameColumns(cols, src) ==
    /\ Len(cols) = Len(src)
    /\ \A k \in 1..Len(src) :
          /\ cols[k].name = src[k].column_name
          /\ cols[k].notnull = (src[k].is_nullable = "NO")

\* C2: the CREATE TABLE executed for a table of the source schema is qualified
\* by the target schema and carries the source's column names, order and
\* nullability, and after a run without errors of the connection every table
\* that was not skipped exists in the target schema with these columns.
C2_TableInTargetSchema ==
    /\ \A p \in TableExecs :
          log[p].stage = "table" =>
              LET parts == NameAt(log[p].stmt, 2)
              IN /\ Len(parts) = 2 /\ ValidName(parts)
                 /\ SchemaOf(parts) = TargetSchema
                 /\ NameOf(parts) = log[p].tbl[2]
                 /\ SameColumns(ParseColumns(log[p].stmt),
                                SrcColumns(log[p].tbl[1], log[p].tbl[2]))
    /\ (pc = "done" /\ result = "Ok" /\ faults = 0) =>
          \A t \in Visited :
              \E r \in db.rels :
                  /\ r.schema = TargetSchema /\ r.name = t.table_name /\ r.kind = "table"
                  /\ SameColumns(r.cols, SrcColumns(t.schema, t.table_name))

\* The schema qualifiers of a statement: the tokens in front of a dot.
Qualifiers(stmt) == {stmt[k] : k \in {k \in 1..(Len(stmt) - 1) : stmt[k + 1] = "."}}

\* C3: every statement of the table, partition, index and constraint stages
\* qualifies names by the target schema only, the table after REFERENCES
\* included, and never by the source schema.
C3_OnlyTargetSchema ==
    \A p \in TableExecs :
        log[p].stage \in {"table", "partitions", "indexes", "constraints"} =>
            /\ Qualifiers(log[p].stmt) \subseteq {TargetSchema}
            /\ \A k \in 1..Len(log[p].stmt) :
                  /\ log[p].stmt[k] # source_schema
                  /\ log[p].stmt[k] = " REFERENCES " =>
                        /\ k + 2 <= Len(log[p].stmt)
                        /\ log[p].stmt[k + 1] = TargetSchema
                        /\ log[p].stmt[k + 2] = "."
                        /\ log[p].stmt[k + 3] \in src_tables

\* The sequences named by the nextval defaults of a source table.
DefaultSequences(schema, table) ==
    LET cols == SrcColumns(schema, table)
    IN {cols[k].column_default[Len(cols[k].column_default) - 4] :
           k \in {k \in 1..Len(cols) : LikeNextval(cols[k].column_default)}}

\* C4: when the CREATE TABLE of a table is about to be executed, the sequence
\* of every nextval default of the table exists in the target schema under the
\* name it has in the source, whether the default prints it qualified or not.
C4_SequencesBeforeTable ==
    pc = "table" =>
        \A seq \in DefaultSequences(Table[1], Table[2]) :
            HasKind(db, TargetSchema, seq, "seq")

\* C9: a constraint statement is executed only after the CREATE TABLE of every
\* table that is not skipped was executed successfully.
C9_ConstraintsAfterAllTables ==
    \A p \in TableExecs :
        log[p].stage = "constraints" =>
            \A t \in Visited :
                \E q \in 1..(p - 1) :
                    /\ log[q].ev = "exec" /\ log[q].stage = "table"
                    /\ log[q].tbl = <<t.schema, t.table_name>>
                    /\ log[q].res = "ok"

\* TableMigrator::migrate for one table on target d, without connection errors.
MigrateTable(d, schema, table) ==
    LET s1 == migrate_sequences(d, schema, table,
                  CHOOSE o \in Perms(get_table_sequences(schema, table)) : TRUE, 0)
        s2 == migrate_table_structure(s1.db, schema, table, 0)
        s3 == migrate_partitions(s2.db, schema, table,
                  CHOOSE o \in Perms(get_partition_ddl(schema, table)) : TRUE, 0)
        s4 == migrate_indexes(s3.db, schema, table,
                  CHOOSE o \in Perms(get_index_ddl(schema, table)) : TRUE, 0)
        s5 == migrate_constraints(s4.db, schema, table,
                  CHOOSE o \in Perms(get_constraint_ddl(schema, table)) : TRUE, 0)
    IN IF s1.err # "" THEN s1
       ELSE IF s2.err # "" THEN s2
       ELSE IF s3.err # "" THEN s3
       ELSE IF s4.err # "" THEN s4
       ELSE s5

\* The loop of StructureMigrator::migrate over the tables in the given order.
RECURSIVE MigrateInOrder(_, _, _)
MigrateInOrder(out, order, k) ==
    IF k > Len(order) THEN out
    ELSE LET st == MigrateTable(out.db, order[k].schema, order[k].table_name)
         IN MigrateInOrder(
                [db |-> st.db,
                 success |-> out.success \cup (IF st.err = "" THEN {order[k]} ELSE {}),
                 failures |-> out.failures \cup (IF st.err = "" THEN {} ELSE {order[k]})],
                order, k + 1)

Outcome(order) ==
    LET out == MigrateInOrder([db |-> db, success |-> {}, failures |-> {}], order, 1)
    IN [cons |-> out.db.cons, success |-> out.success, failures |-> out.failures]

\* C8: from the target as it is when the loop starts, visiting the same tables
\* in any two orders ends with the same constraints in the target and the same
\* success and failures sets.
C8_OrderInsensitive ==
    (pc = "loop" /\ idx = 1) =>
        \A o1, o2 \in Perms(Visited) : Outcome(o1) = Outcome(o2)

\* C11: clean_type_references applied to its own result returns that result.
C11_CleanIdempotent ==
    \A k \in 1..(Len(rw_calls) - 1) :
        (rw_calls[k].fn = "clean_type_references"
            /\ rw_calls[k + 1].fn = "clean_type_references")
                => rw_calls[k + 1].output = rw_calls[k].output

\* C12: prepare_ddl for a schema other than public returns the text unchanged,
\* and prepare_ddl for public applied to its own result returns that result.
C12_PrepareIdempotent ==
    \A k \in 1..Len(rw_calls) :
        rw_calls[k].fn = "prepare_ddl" =>
            /\ rw_calls[k].schema # "public" => rw_calls[k].output = rw_calls[k].input
            /\ (/\ k < Len(rw_calls)
                /\ rw_calls[k].schema = "public"
                /\ rw_calls[k + 1].fn = "prepare_ddl"
                /\ rw_calls[k + 1].schema = "public")
                   => rw_calls[k + 1].output = rw_calls[k].output

\* C13: once the loop over the enums is through, every enumeration of the
\* source, in whatever user schema, has a type of its name in the target
\* schema with the same ordered values.
C13_EnumsMigrated ==
    (pc \in {"loop", "sequences", "table", "partitions", "indexes", "constraints", "done"}
        /\ result # "Err")
        => \A k \in 1..Len(SrcEnums) :
              \E t \in db.types :
                  /\ t.schema = TargetSchema
                  /\ t.name = SrcEnums[k].enum_name
                  /\ t.values = SrcEnums[k].enum_values

\* The log positions of the statements of recreate_schema and create_enum.
SetupExecs == {p \in 1..Len(log) : log[p].stage \in {"schema", "enum"}}
TableEntries == {p \in 1..Len(log) : log[p].tbl # NoTable}

\* C14: the statements reach the target in the order DROP SCHEMA, CREATE
\* SCHEMA, one statement per enum, then the tables: nothing follows a failed
\* statement of the first three steps, an enum statement comes after both
\* schema statements succeeded, a table is attempted only after every enum was
\* created, and a run that returned Err attempted no table.
C14_MigrateOrder ==
    /\ Len(log) >= 1 =>
          log[1].stage = "schema" /\ log[1].stmt[1] = "DROP SCHEMA IF EXISTS "
    /\ Len(log) >= 2 =>
          /\ log[1].res = "ok"
          /\ log[2].stage = "schema" /\ log[2].stmt[1] = "CREATE SCHEMA IF NOT EXISTS "
    /\ \A p \in SetupExecs :
          /\ log[p].stage = "schema" => p <= 2
          /\ log[p].res # "ok" => p = Len(log) /\ pc = "done" /\ result = "Err"
          /\ \A q \in TableEntries : p < q
    /\ \A p \in 1..Len(log) :
          p > 2 => log[1].res = "ok" /\ log[2].res = "ok"
    /\ TableEntries # {} =>
          \A k \in 1..Len(SrcEnums) :
              \E p \in SetupExecs :
                  /\ log[p].stmt = CreateEnumStmt(SrcEnums[k])
                  /\ log[p].res = "ok"
    /\ pc \in {"loop", "sequences", "table", "partitions", "indexes", "constraints"} =>
          /\ result = "none"
          /\ Cardinality({p \in SetupExecs : log[p].res = "ok"}) = 2 + Len(SrcEnums)
    /\ result = "Err" => TableEntries = {} /\ pc = "done"

\* A run that created the schema and both enums and then executed statements
\* of a table.
C14_Witness ==
    /\ \E p \in TableExecs : log[p].stage = "table" /\ log[p].res = "ok"
    /\ Cardinality({p \in SetupExecs : log[p].stage = "enum"}) = 2

\* ================================================ the data migrator's functions

\* Largest number of rows a source table holds in a modelled run.
MaxRows == 2

\* usize::to_string, and the text of a bigint value, for the numbers of the model.
ToStr(n) == <<"1", "2", "3", "4", "5", "6", "7", "8", "9">>[n]

\* A value of a row: SQL NULL, or its text (a token sequence).
Null == [null |-> TRUE, text |-> <<>>]
Val(text) == [null |-> FALSE, text |-> text]

\* Row i of table t of the source schema, by column name.
SrcRow(t, i) ==
    IF t \in {"users", "accounts"}
    THEN [c \in {"id", "email"} |->
            IF c = "id" THEN Val(<<ToStr(i)>>) ELSE Val(<<"o", "'", ToStr(i)>>)]
    ELSE IF t = "orders"
    THEN [c \in {"user_id", "state"} |->
            IF c = "state" THEN Val(<<"new">>)
            ELSE IF src_nulls THEN Null ELSE Val(<<ToStr(i)>>)]
    ELSE [c \in {"payload"} |-> IF src_nulls THEN Null ELSE Val(<<"p">>)]

\* The rows of schema.table in the source.
SrcRows(schema, table) ==
    IF schema = source_schema /\ <<schema, table>> \in SrcRelations
    THEN [i \in 1..src_count |-> SrcRow(table, i)]
    ELSE <<>>

\* The rows of the information_schema.columns query of get_select_string and
\* get_table_columns: (column_name, data_type, is_nullable) by ordinal_position.
ColumnRows(schema, table) ==
    IF <<schema, table>> \in SrcRelations THEN SrcColumns(schema, table) ELSE <<>>

\* format!("\"{}\"", name) of every column.
get_column_list(columns) ==
    [k \in 1..Len(columns) |-> <<"\"", columns[k].column_name, "\"">>]

\* The text get_select_string builds from the rows of its query.
get_select_string(schema, table, columns) ==
    <<"SELECT ">> \o JoinWith(get_column_list(columns), <<", ">>)
    \o <<" FROM ", schema, ".", table>>

\* raw_columns.iter().filter(|(name, _, _)| name != "id")
RECURSIVE ExcludeId(_)
ExcludeId(columns) ==
    IF columns = <<>> THEN <<>>
    ELSE IF Head(columns).column_name = "id" THEN ExcludeId(Tail(columns))
    ELSE <<Head(columns)>> \o ExcludeId(Tail(columns))

\* The column types sqlx decodes into a String.
TextTypes == {"text", "varchar", "bpchar", "name"}

\* row.try_get::<Option<String>>(name).unwrap_or(None): <<>> is None, <<v>> is
\* Some(v).  NULL gives None; a value of a type that is not a text type gives
\* Some(text) or, when the driver refuses the type, an error and so None.
try_get(row, column) ==
    LET v == row[column.column_name]
    IN IF v.null THEN <<>>
       ELSE IF column.typname \notin TextTypes /\ strict_decode THEN <<>>
       ELSE <<v.text>>

IsInt(data_type) == data_type = "integer" \/ data_type = "bigint"

\* The text of one value of get_values_list: col_idx (idx) and row_num count from 0.
ValueText(row, row_num, columns, col_idx) ==
    LET value == try_get(row, columns[col_idx + 1])
        data_type == columns[col_idx + 1].data_type
    IN IF value # <<>>
       THEN IF IsInt(data_type) THEN value[1]
            ELSE <<"'">> \o Replace(value[1], <<"'">>, <<"'", "'">>) \o <<"'">>
       ELSE IF col_idx = 0 /\ IsInt(data_type) THEN <<ToStr(row_num + 1)>>
       ELSE <<"NULL">>

\* get_values_list: format!("({})", values.join(", ")) of every row.
get_values_list(rows, columns) ==
    [r \in 1..Len(rows) |->
        <<"(">>
        \o JoinWith([k \in 1..Len(columns) |-> ValueText(rows[r], r - 1, columns, k - 1)],
                    <<", ">>)
        \o <<")">>]

\* The text of truncate_table.
TruncateStmt(table) ==
    <<"TRUNCATE TABLE ", TargetSchema, ".", table, " RESTART IDENTITY CASCADE">>

\* The text of execute_insert.
InsertStmt(table, column_list, values_list) ==
    <<"INSERT INTO ", TargetSchema, ".", table, " (">>
    \o JoinWith(column_list, <<", ">>)
    \o <<") VALUES ">>
    \o JoinWith(values_list, <<", ">>)

\* ------------------------------------------- the target's answers to TRUNCATE, INSERT

TableOf(d, name) ==
    CHOOSE r \in d.rels : r.schema = TargetSchema /\ r.name = name /\ r.kind = "table"

\* The tables TRUNCATE ... CASCADE empties: those of S and every table with a
\* foreign key to one of them.
RECURSIVE CascadeSet(_, _)
CascadeSet(d, S) ==
    LET more == S \cup {c.table : c \in {c \in d.cons :
                                           /\ c.schema = TargetSchema
                                           /\ c.refs # <<>>
                                           /\ c.refs[1] = TargetSchema
                                           /\ c.refs[2] \in S}}
    IN IF more = S THEN S ELSE CascadeSet(d, more)

\* TRUNCATE TABLE s.t RESTART IDENTITY CASCADE.  The sequences of the target
\* are owned by no column (the program's CREATE SEQUENCE has no OWNED BY), so
\* RESTART IDENTITY restarts none of them.
ExecTruncate(d, stmt) ==
    LET parts == NameAt(stmt, 2)
    IN IF \/ ~ValidName(parts)
          \/ SchemaOf(parts) # TargetSchema
          \/ ~HasKind(d, TargetSchema, NameOf(parts), "table")
       THEN [res |-> "error", db |-> d]
       ELSE [res |-> "ok",
             db |-> [d EXCEPT !.rows =
                       [t \in DOMAIN @ |->
                          IF t \in CascadeSet(d, {NameOf(parts)}) THEN <<>> ELSE @[t]]]]

\* The value a literal of a VALUES list denotes.
ParseLiteral(lit) ==
    IF lit = <<"NULL">> THEN Null
    ELSE IF Len(lit) >= 2 /\ lit[1] = "'" /\ lit[Len(lit)] = "'"
    THEN Val(Replace(SubSeq(lit, 2, Len(lit) - 1), <<"'", "'">>, <<"'">>))
    ELSE Val(lit)

\* Position of column name in cols (0: none).
ColumnPos(cols, name) ==
    IF \E k \in 1..Len(cols) : cols[k].name = name
    THEN CHOOSE k \in 1..Len(cols) : cols[k].name = name
    ELSE 0

\* A value fits the type of a column: a value of an enum column is one of the
\* labels of the enum (other types take every text of the model).
FitsType(d, col, v) ==
    \A t \in d.types :
        (t.schema = SchemaOf(col.type) /\ t.name = NameOf(col.type) /\ ~v.null)
            => (Len(v.text) = 1 /\ v.text[1] \in Range(t.values))

\* Column k of the table is named in the column list names of an INSERT.
Listed(cols, names, k) == \E j \in 1..Len(names) : names[j] = <<"\"", cols[k].name, "\"">>

\* The literal given for column k in tuple r of the VALUES list: the pieces
\* between the ", ", without the "(" and ")" of the tuple.
LiteralOf(cols, names, pieces, r, k) ==
    LET j == CHOOSE j \in 1..Len(names) : names[j] = <<"\"", cols[k].name, "\"">>
        p == pieces[(r - 1) * Len(names) + j]
        q == IF j = 1 THEN Tail(p) ELSE p
    IN IF j = Len(names) THEN SubSeq(q, 1, Len(q) - 1) ELSE q

\* The value of column k of inserted row r: the literal, or for a column left
\* out its DEFAULT (the next value of its sequence) or NULL.
InsertedValue(d, name, cols, names, pieces, r, k) ==
    IF Listed(cols, names, k) THEN ParseLiteral(LiteralOf(cols, names, pieces, r, k))
    ELSE IF cols[k].hasdefault THEN Val(<<ToStr(d.nextid[name] + r - 1)>>)
    ELSE Null

InsertedRows(d, name, cols, names, pieces) ==
    [r \in 1..(Len(pieces) \div Len(names)) |->
        [c \in {cols[k].name : k \in 1..Len(cols)} |->
            InsertedValue(d, name, cols, names, pieces, r, ColumnPos(cols, c))]]

\* A row satisfies the foreign key c of its table.
ForeignKeyOk(d, c, row) ==
    \/ row[c.col].null
    \/ /\ c.refs[1] = TargetSchema
       /\ \E p \in Range(d.rows[c.refs[2]]) :
             ~p[c.refs[3]].null /\ p[c.refs[3]].text = row[c.col].text

\* A row satisfies NOT NULL, the labels of its enum columns, its foreign keys.
RowOk(d, name, cols, row) ==
    /\ \A k \in 1..Len(cols) :
          /\ cols[k].notnull => ~row[cols[k].name].null
          /\ FitsType(d, cols[k], row[cols[k].name])
    /\ \A c \in d.cons :
          (c.schema = TargetSchema /\ c.table = name /\ c.refs # <<>>)
              => ForeignKeyOk(d, c, row)

\* The rows are stored, all or none.
StoreRows(d, name, cols, names, new) ==
    IF \A r \in 1..Len(new) : RowOk(d, name, cols, new[r])
    THEN [res |-> "ok",
          db |-> [d EXCEPT !.rows[name] = @ \o new,
                           !.nextid[name] =
                               IF \E k \in 1..Len(cols) :
                                     cols[k].hasdefault /\ ~Listed(cols, names, k)
                               THEN @ + Len(new) ELSE @]]
    ELSE [res |-> "error", db |-> d]

\* The statement names an existing table: every listed column is one of its
\* columns (an empty list is a syntax error), every tuple has one literal
\* per listed column.
InsertInto(d, name, cols, names, pieces) ==
    IF \/ \E j \in 1..Len(names) : \A k \in 1..Len(cols) : names[j] # <<"\"", cols[k].name, "\"">>
       \/ Len(pieces) # (Len(pieces) \div Len(names)) * Len(names)
    THEN [res |-> "error", db |-> d]
    ELSE StoreRows(d, name, cols, names, InsertedRows(d, name, cols, names, pieces))

\* INSERT INTO s.t ("c1", ...) VALUES (v, ...), ...: one statement, all rows or
\* none.  Checked: the table and the columns exist, NOT NULL, the labels of
\* enums, foreign keys (the values of the model fit every other type, the
\* values of a sequence are unique).
ExecInsert(d, stmt) ==
    LET parts == NameAt(stmt, 2)
        open == IndexOfTok(stmt, " (")
        vpos == IndexOfTok(stmt, ") VALUES ")
    IN IF \/ ~ValidName(parts)
          \/ open = 0 \/ vpos = 0
          \/ SchemaOf(parts) # TargetSchema
          \/ ~HasKind(d, TargetSchema, NameOf(parts), "table")
       THEN [res |-> "error", db |-> d]
       ELSE InsertInto(d, NameOf(parts), TableOf(d, NameOf(parts)).cols,
                       Split(SubSeq(stmt, open + 1, vpos - 1), ", "),
                       Split(SubSeq(stmt, vpos + 1, Len(stmt)), ", "))

\* The target's answer to a statement of the data migrator.
ExecData(d, stmt) ==
    IF stmt[1] = "TRUNCATE TABLE " THEN ExecTruncate(d, stmt)
    ELSE IF stmt[1] = "INSERT INTO " THEN ExecInsert(d, stmt)
    ELSE [res |-> "error", db |-> d]

\* ---------------------------------------------------------- DataMigrator

\* A query on the source connection, recorded with its text.
SourceRead(st, tbl, stmt, f) ==
    [db |-> st.db,
     ents |-> Append(st.ents,
                     Entry("read", tbl, "data", stmt, IF st.n + 1 = f THEN "error" ELSE "ok")),
     n |-> st.n + 1,
     err |-> IF st.n + 1 = f THEN "QueryExecution" ELSE ""]

\* truncate_table and execute_insert with the statement sent on
\* self.source_conn: the target does not see it.
ExecuteDataOnSource(st, tbl, stmt, f) ==
    [db |-> st.db,
     ents |-> Append(st.ents,
                     Entry("read", tbl, "data", stmt, IF st.n + 1 = f THEN "error" ELSE "ok")),
     n |-> st.n + 1,
     err |-> IF st.n + 1 = f THEN "QueryExecution" ELSE ""]

\* sqlx::query(stmt).execute(&self.target_conn) of truncate_table and
\* execute_insert, with map_err(|e| CustomError::QueryExecution)?
ExecuteData(st, tbl, stmt, f) ==
    LET a == IF st.n + 1 = f THEN [res |-> "error", db |-> st.db] ELSE ExecData(st.db, stmt)
    IN [db |-> a.db,
        ents |-> Append(st.ents, Entry("exec", tbl, "data", stmt, a.res)),
        n |-> st.n + 1,
        err |-> IF a.res = "ok" THEN "" ELSE "QueryExecution"]

\* The query of get_select_string and of get_table_columns.
ColumnsQuery ==
    <<"SELECT column_name, data_type, is_nullable FROM information_schema.columns">>

\* get_table_columns followed by the filter of migrate_table.
get_table_columns(schema, table) == ExcludeId(ColumnRows(schema, table))

\* migrate_table from get_rows on: the SELECT, then nothing for an empty
\* result, else one INSERT of all rows.
CopyRows(st, table, select_query, columns, f) ==
    IF SourceRead(st, <<source_schema, table>>, select_query, f).err # ""
       \/ SrcRows(source_schema, table) = <<>>
    THEN SourceRead(st, <<source_schema, table>>, select_query, f)
    ELSE ExecuteData(SourceRead(st, <<source_schema, table>>, select_query, f),
                     <<source_schema, table>>,
                     InsertStmt(table, get_column_list(columns),
                                get_values_list(SrcRows(source_schema, table), columns)),
                     f)

\* migrate_table from get_table_columns on.
ReadColumns(st, table, select_query, f) ==
    IF SourceRead(st, <<source_schema, table>>, ColumnsQuery, f).err # ""
    THEN SourceRead(st, <<source_schema, table>>, ColumnsQuery, f)
    ELSE CopyRows(SourceRead(st, <<source_schema, table>>, ColumnsQuery, f), table,
                  select_query, get_table_columns(source_schema, table), f)

\* migrate_table from get_select_string on: no column is DbTableStructure.
SelectString(st, table, f) ==
    IF SourceRead(st, <<source_schema, table>>, ColumnsQuery, f).err # ""
    THEN SourceRead(st, <<source_schema, table>>, ColumnsQuery, f)
    ELSE IF ColumnRows(source_schema, table) = <<>>
    THEN [SourceRead(st, <<source_schema, table>>, ColumnsQuery, f)
             EXCEPT !.err = "DbTableStructure"]
    ELSE ReadColumns(SourceRead(st, <<source_schema, table>>, ColumnsQuery, f), table,
                     get_select_string(source_schema, table,
                                       ColumnRows(source_schema, table)), f)

\* After truncate_table(table).await?
Truncated(st, table, f) == IF st.err # "" THEN st ELSE SelectString(st, table, f)

\* migrate_table with the column query of get_select_string sent before the
\* TRUNCATE.
migrate_table_read_first(d, table, f) ==
    IF SourceRead(Begin(d), <<source_schema, table>>, ColumnsQuery, f).err # ""
    THEN SourceRead(Begin(d), <<source_schema, table>>, ColumnsQuery, f)
    ELSE Truncated(ExecuteData(SourceRead(Begin(d), <<source_schema, table>>, ColumnsQuery, f),
                               <<source_schema, table>>, TruncateStmt(table), f),
                   table, f)

\* DataMigrator::migrate_table: what it does to the target d, with the failing
\* round trip f (0: none).
migrate_table(d, table, f) ==
    Truncated(ExecuteData(Begin(d), <<source_schema, table>>, TruncateStmt(table), f),
              table, f)

\* ------------------------------------------------- main and Migrator::migrate

Exit(code, cause) ==
    /\ phase' = "exit"
    /\ exit_code' = code
    /\ exit_cause' = cause

RunFrame ==
    UNCHANGED <<source_schema, copy_staging_tables, in_path, src_tables, enums, tables, idx,
                success, failures, skipped, result, rw_vars, copy_structure, copy_data,
                data_source, src_count, src_nulls, strict_decode, rerun, other_enum,
                dump_vars, mysql_vars>>

\* main up to the call of Migrator::migrate: read_config panics when the file
\* cannot be read or parsed, a category other than "mysql" and "postgres"
\* panics after the dispatch.
Main ==
    /\ phase = "main"
    /\ \E config \in {"postgres", "unreadable", "unsupported"} :
          IF config = "postgres"
          THEN /\ phase' = "migrate_structure"
               /\ UNCHANGED <<exit_code, exit_cause>>
          ELSE Exit(101, "config")
    /\ UNCHANGED <<db, pc, log, faults, didx, failed_tables, success_tables, rows_before>>
    /\ RunFrame

\* Migrator::migrate, the structure part up to PgDumpMigrator::new or
\* StructureMigrator::new: both connections are opened, an error of
\* get_connections_pool is returned to main.
MigrateStructure ==
    /\ phase = "migrate_structure"
    /\ IF copy_structure
       THEN \E connected \in BOOLEAN :
               IF connected
               THEN /\ phase' = IF use_pg_dump THEN "pg_dump_structure" ELSE "structure"
                    /\ pc' = IF use_pg_dump THEN pc ELSE "recreate_schema"
                    /\ UNCHANGED <<exit_code, exit_cause>>
               ELSE /\ Exit(1, "connection")
                    /\ UNCHANGED pc
       ELSE /\ phase' = "migrate_data"
            /\ UNCHANGED <<pc, exit_code, exit_cause>>
    /\ UNCHANGED <<db, log, faults, didx, failed_tables, success_tables, rows_before>>
    /\ RunFrame

\* self.migrate_structure().await?: the return of StructureMigrator::migrate or
\* of PgDumpMigrator::migrate_structure.
StructureReturned ==
    /\ \/ phase = "structure" /\ pc = "done"
       \/ phase = "pg_dump_structure" /\ result # "none"
    /\ IF result = "Ok"
       THEN /\ phase' = "migrate_data"
            /\ UNCHANGED <<exit_code, exit_cause>>
       ELSE Exit(1, "structure")
    /\ UNCHANGED <<db, pc, log, faults, didx, failed_tables, success_tables, rows_before>>
    /\ RunFrame

\* Migrator::migrate, the data part up to PgDumpMigrator::new or
\* DataMigrator::init; without copy_data migrate returns Ok and main returns Ok.
MigrateData ==
    /\ phase = "migrate_data"
    /\ IF copy_data
       THEN \E connected \in BOOLEAN :
               IF connected
               THEN /\ phase' = IF use_pg_dump THEN "pg_dump_data" ELSE "data"
                    /\ rows_before' = db.rows
                    /\ UNCHANGED <<exit_code, exit_cause>>
               ELSE /\ Exit(1, "connection")
                    /\ UNCHANGED rows_before
       ELSE /\ Exit(0, "completed")
            /\ UNCHANGED rows_before
    /\ UNCHANGED <<db, pc, log, faults, didx, failed_tables, success_tables>>
    /\ RunFrame

\* DataMigrator::migrate with the error of a table returned by `?`.
TableReturnsPropagated(st) ==
    /\ db' = st.db
    /\ log' = log \o st.ents
              \o <<Entry("return", <<source_schema, data_source[didx]>>, "data", <<>>,
                         IF st.err = "" THEN "ok" ELSE st.err)>>
    /\ IF st.err # ""
       THEN /\ Exit(1, "data")
            /\ UNCHANGED <<didx, failed_tables, success_tables>>
       ELSE /\ success_tables' = Append(success_tables, data_source[didx])
            /\ didx' = didx + 1
            /\ UNCHANGED <<failed_tables, phase, exit_code, exit_cause>>

\* migrate_table returned st: the table is pushed to failed_tables or to
\* success_tables and the loop goes on.
TableReturns(st) ==
    /\ db' = st.db
    /\ log' = log \o st.ents
              \o <<Entry("return", <<source_schema, data_source[didx]>>, "data", <<>>,
                         IF st.err = "" THEN "ok" ELSE st.err)>>
    /\ IF st.err # ""
       THEN /\ failed_tables' = Append(failed_tables, data_source[didx])
            /\ UNCHANGED success_tables
       ELSE /\ success_tables' = Append(success_tables, data_source[didx])
            /\ UNCHANGED failed_tables
    /\ didx' = didx + 1
    /\ UNCHANGED <<phase, exit_code, exit_cause>>

\* One turn of the loop of DataMigrator::migrate.
MigrateTableData ==
    /\ phase = "data"
    /\ didx <= Len(data_source)
    /\ \E f \in FaultPoints(migrate_table(db, data_source[didx], 0)) :
          /\ faults' = Faults(f)
          /\ TableReturns(migrate_table(db, data_source[didx], f))
    /\ UNCHANGED <<pc, rows_before>>
    /\ RunFrame

\* After the loop, with an error returned when a table failed.
DataFinishFailing ==
    /\ phase = "data"
    /\ didx > Len(data_source)
    /\ IF failed_tables = <<>> THEN Exit(0, "completed") ELSE Exit(1, "data")
    /\ UNCHANGED <<db, pc, log, faults, didx, failed_tables, success_tables, rows_before>>
    /\ RunFrame

\* After the loop: both lists are logged, migrate returns Ok(()) and so do
\* Migrator::migrate and main.
DataFinish ==
    /\ phase = "data"
    /\ didx > Len(data_source)
    /\ Exit(0, "completed")
    /\ UNCHANGED <<db, pc, log, faults, didx, failed_tables, success_tables, rows_before>>
    /\ RunFrame

\* ------------------------------------------------------- the pg_dump backend

\* The command line of migrate_structure (the credentials and the host of a
\* database are one token).
StructureCommand ==
    <<"pg_dump ", "source", " --schema=", source_schema, " --schema-only">>
    \o Flatten([k \in 1..Len(tables_skip) |-> <<" --exclude-table=", tables_skip[k]>>])
    \o <<" | ", "psql ", "target">>

\* The command line of migrate_data.
DataCommand ==
    <<"pg_dump ", "source", " --schema=", source_schema, " --data-only">>
    \o Flatten([k \in 1..Len(data_source) |-> <<" -t ", data_source[k]>>])
    \o <<" | ", "psql ", "target">>

\* The arguments of an option of a command line.
OptionValues(command, option) ==
    {command[k + 1] : k \in {k \in 1..(Len(command) - 1) : command[k] = option}}

\* The tables of the source pg_dump --schema-only writes out: those of the
\* schema of --schema, without those of an --exclude-table.
DumpedTables(command) ==
    {t \in src_tables :
        /\ source_schema \in OptionValues(command, " --schema=")
        /\ t \notin OptionValues(command, " --exclude-table=")}

\* A dumped table as psql creates it: under the name it has in the source,
\* schema included.
DumpedRel(schema, t) ==
    Rel(schema, t, "table", "",
        [k \in 1..Len(SrcColumns(schema, t)) |->
            [name |-> SrcColumns(schema, t)[k].column_name,
             notnull |-> SrcColumns(schema, t)[k].is_nullable = "NO",
             hasdefault |-> SrcColumns(schema, t)[k].column_default # <<>>,
             type |-> IF SrcColumns(schema, t)[k].data_type = "USER-DEFINED"
                      THEN <<<<schema>>, <<SrcColumns(schema, t)[k].typname>>>>
                      ELSE <<<<SrcColumns(schema, t)[k].data_type>>>>]])

\* The target after psql ran the whole dump of the schema.
Restore(d, command) ==
    [d EXCEPT !.schemas = @ \cup OptionValues(command, " --schema="),
              !.rels = @ \cup {DumpedRel(source_schema, t) :
                                 t \in {t \in DumpedTables(command) :
                                          ~HasRel(d, source_schema, t)}}]

\* What Command::output can give: the shell was not started; the pipeline ended
\* with a status other than 0; it ended with status 0, with or without text on
\* stderr.  The status of a pipeline is the status of psql, which goes on after
\* a statement that failed and ends with 0 when pg_dump failed.
Outputs ==
    {[spawned |-> FALSE, success |-> FALSE, stderr |-> FALSE]}
    \cup {[spawned |-> TRUE, success |-> ok, stderr |-> err] : ok, err \in BOOLEAN}

\* Whether the dump reached the target: it did when nothing was written to
\* stderr, it may or may not have otherwise.
Restored(out) ==
    IF ~out.spawned \/ ~out.success THEN {FALSE}
    ELSE IF out.stderr THEN BOOLEAN
    ELSE {TRUE}

\* PgDumpMigrator::recreate_schema
pg_dump_recreate_schema(st, f) ==
    IF f = 1
    THEN [st EXCEPT !.ents = Append(@, Entry("exec", NoTable, "pg_dump",
                                   <<"DROP SCHEMA IF EXISTS ", TargetSchema, " CASCADE;">>,
                                   "error")),
                    !.err = "QueryExecution"]
    ELSE IF f = 2
    THEN [st EXCEPT !.db = ExecDropSchema(st.db, TargetSchema),
                    !.ents = @ \o
                       <<Entry("exec", NoTable, "pg_dump",
                               <<"DROP SCHEMA IF EXISTS ", TargetSchema, " CASCADE;">>, "ok"),
                         Entry("exec", NoTable, "pg_dump",
                               <<"CREATE SCHEMA IF NOT EXISTS ", TargetSchema, ";">>,
                               "error")>>,
                    !.err = "QueryExecution"]
    ELSE [st EXCEPT !.db = ExecCreateSchema(ExecDropSchema(st.db, TargetSchema),
                                            TargetSchema),
                    !.ents = @ \o
                       <<Entry("exec", NoTable, "pg_dump",
                               <<"DROP SCHEMA IF EXISTS ", TargetSchema, " CASCADE;">>, "ok"),
                         Entry("exec", NoTable, "pg_dump",
                               <<"CREATE SCHEMA IF NOT EXISTS ", TargetSchema, ";">>,
                               "ok")>>]

\* The pipeline of migrate_structure was run and gave out.
SpawnStructure(st, command, out, restored) ==
    [db |-> IF restored THEN Restore(st.db, command) ELSE st.db,
     ents |-> Append(st.ents, Entry("spawn", NoTable, "pg_dump", command,
                                    IF ~out.spawned THEN "not spawned"
                                    ELSE IF ~out.success THEN "failed"
                                    ELSE IF out.stderr THEN "stderr"
                                    ELSE "ok")),
     n |-> st.n,
     err |-> IF ~out.spawned \/ ~out.success THEN "CommandExecution" ELSE ""]

\* PgDumpMigrator::migrate_structure after recreate_schema returned st.
pg_dump_migrate_structure(st, out, restored) ==
    IF st.err # "" THEN st
    ELSE SpawnStructure(st, StructureCommand, out, restored)

\* PgDumpMigrator::migrate_data
pg_dump_migrate_data(st, out) ==
    [st EXCEPT !.ents = Append(@, Entry("spawn", NoTable, "pg_dump_data", DataCommand,
                                        IF ~out.spawned THEN "not spawned"
                                        ELSE IF ~out.success THEN "failed"
                                        ELSE IF out.stderr THEN "stderr"
                                        ELSE "ok")),
               !.err = IF ~out.spawned \/ ~out.success \/ out.stderr
                       THEN "CommandExecution" ELSE ""]

\* migrate_structure returned st.
PgDumpReturns(st, out) ==
    /\ db' = st.db
    /\ log' = log \o st.ents \o <<Entry("return", NoTable, "pg_dump", <<>>,
                                        IF st.err = "" THEN "ok" ELSE st.err)>>
    /\ result' = IF st.err = "" THEN "Ok" ELSE "Err"
    /\ output' = IF st.err = "QueryExecution" THEN output ELSE out

PgDumpFrame ==
    UNCHANGED <<source_schema, copy_staging_tables, in_path, src_tables, enums, tables, idx,
                success, failures, skipped, pc, rw_vars, copy_structure, copy_data,
                data_source, src_count, src_nulls, strict_decode, rerun, other_enum,
                didx, failed_tables, success_tables, rows_before, use_pg_dump, tables_skip,
                mysql_vars>>

\* pg_dump_migrator.migrate_structure().await: the schema is re-created, the
\* pipeline is run once.
PgDumpMigrateStructure ==
    /\ phase = "pg_dump_structure"
    /\ result = "none"
    /\ \E f \in 0..(IF MayFail THEN 2 ELSE 0), out \in Outputs :
          \E restored \in Restored(out) :
             /\ f > 0 => (out = NoOutput /\ ~restored)
             /\ faults' = Faults(f)
             /\ PgDumpReturns(pg_dump_migrate_structure(
                                 pg_dump_recreate_schema(Begin(db), f), out, restored), out)
    /\ UNCHANGED <<phase, exit_code, exit_cause>>
    /\ PgDumpFrame

\* pg_dump_migrator.migrate_data().await?: the pipeline is run once; the rows go
\* to the tables of the schema named as in the source, none to a table of the
\* target schema.
PgDumpMigrateData ==
    /\ phase = "pg_dump_data"
    /\ \E out \in Outputs :
          /\ output' = out
          /\ log' = log \o pg_dump_migrate_data(Begin(db), out).ents
                    \o <<Entry("return", NoTable, "pg_dump_data", <<>>,
                               IF pg_dump_migrate_data(Begin(db), out).err = ""
                               THEN "ok" ELSE "CommandExecution")>>
          /\ IF pg_dump_migrate_data(Begin(db), out).err = ""
             THEN Exit(0, "completed")
             ELSE Exit(1, "data")
    /\ UNCHANGED <<db, result, faults>>
    /\ PgDumpFrame

\* The configurations of config.tables.skip of the modelled runs.
SkipLists == {<<>>, <<"test_tab">>, <<"orders">>}

DumpInit ==
    /\ source_schema \in SourceSchemas
    /\ copy_staging_tables \in {"true", "false", "absent"}
    /\ in_path = TRUE
    /\ src_tables \in {S \in {{"accounts", "orders"}, {"events_2024", "users"},
                               {"users", "test_tab"}} : Cardinality(S) <= MaxTables}
    /\ copy_structure \in BOOLEAN
    /\ copy_data \in BOOLEAN
    /\ data_source \in IF copy_data THEN {<<>>, <<"users">>} ELSE {<<>>}
    /\ src_count = 0
    /\ src_nulls = FALSE
    /\ strict_decode = FALSE
    /\ db = InitialDb(FALSE)
    /\ pc = "off"
    /\ enums = <<>>
    /\ tables = <<>>
    /\ idx = 1
    /\ success = <<>>
    /\ failures = <<>>
    /\ skipped = <<>>
    /\ log = <<>>
    /\ result = "none"
    /\ faults = 0
    /\ phase = "main"
    /\ exit_code = -1
    /\ exit_cause = ""
    /\ didx = 1
    /\ failed_tables = <<>>
    /\ success_tables = <<>>
    /\ rerun = FALSE
    /\ rows_before = NoRows
    /\ other_enum = TRUE
    /\ use_pg_dump \in BOOLEAN
    /\ tables_skip \in IF use_pg_dump THEN SkipLists ELSE {<<>>}
    /\ output = NoOutput
    /\ RewriterIdle
    /\ MysqlIdle

DumpNext ==
    \/ Main
    \/ MigrateStructure
    \/ PgDumpMigrateStructure
    \/ RecreateSchema
    \/ ListAllEnums
    \/ CreateEnum
    \/ ListAllTables
    \/ NextTable
    \/ MigrateSequences
    \/ MigrateTableStructure
    \/ MigratePartitions
    \/ MigrateIndexes
    \/ MigrateConstraints
    \/ Finish
    \/ StructureReturned
    \/ MigrateData
    \/ PgDumpMigrateData
    \/ MigrateTableData
    \/ DataFinish

DumpSpec == DumpInit /\ [][DumpNext]_vars

\* ------------------------------------------------------------ the whole run

\* The source schemas' tables and the data_source lists of the modelled runs.
RunTables ==
    {S \in {{"accounts", "orders"}, {"orders", "users"}, {"users", "test_tab"}} :
        Cardinality(S) <= MaxTables}
RunDataSources ==
    {<<>>, <<"accounts">>, <<"users">>, <<"orders", "accounts">>, <<"users", "orders">>,
     <<"accounts", "orders">>, <<"test_tab", "users">>}

\* Runs without copy_data are taken with an empty data_source and an empty
\* source, a source schema other than public with the second enum.
RunInit ==
    /\ source_schema \in SourceSchemas
    /\ copy_staging_tables = "absent"
    /\ in_path = TRUE
    /\ src_tables \in RunTables
    /\ copy_structure \in BOOLEAN
    /\ copy_data \in BOOLEAN
    /\ data_source \in IF copy_data THEN RunDataSources ELSE {<<>>}
    /\ src_count \in IF copy_data THEN 0..MaxRows ELSE {0}
    /\ src_nulls \in IF src_count > 0 THEN BOOLEAN ELSE {FALSE}
    /\ strict_decode \in IF src_count > 0 THEN BOOLEAN ELSE {FALSE}
    /\ db = InitialDb(FALSE)
    /\ pc = "off"
    /\ enums = <<>>
    /\ tables = <<>>
    /\ idx = 1
    /\ success = <<>>
    /\ failures = <<>>
    /\ skipped = <<>>
    /\ log = <<>>
    /\ result = "none"
    /\ faults = 0
    /\ phase = "main"
    /\ exit_code = -1
    /\ exit_cause = ""
    /\ didx = 1
    /\ failed_tables = <<>>
    /\ success_tables = <<>>
    /\ rerun = FALSE
    /\ rows_before = NoRows
    /\ other_enum \in IF source_schema = "public" THEN BOOLEAN ELSE {TRUE}
    /\ RewriterIdle
    /\ DumpIdle
    /\ MysqlIdle

\* The program is started a second time on the same source and target, after a
\* run that copied the structure and met no database error, with a
\* configuration changed to copy data only.
NextRun ==
    /\ phase = "exit"
    /\ exit_code = 0
    /\ copy_structure
    /\ faults = 0
    /\ ~rerun
    /\ rerun' = TRUE
    /\ copy_structure' = FALSE
    /\ copy_data' = TRUE
    /\ data_source' \in RunDataSources
    /\ phase' = "main"
    /\ exit_code' = -1
    /\ exit_cause' = ""
    /\ pc' = "off"
    /\ enums' = <<>>
    /\ tables' = <<>>
    /\ idx' = 1
    /\ success' = <<>>
    /\ failures' = <<>>
    /\ skipped' = <<>>
    /\ log' = <<>>
    /\ result' = "none"
    /\ didx' = 1
    /\ failed_tables' = <<>>
    /\ success_tables' = <<>>
    /\ rows_before' = NoRows
    /\ UNCHANGED <<source_schema, copy_staging_tables, in_path, src_tables, db, faults,
                   src_count, src_nulls, strict_decode, other_enum, rw_vars, dump_vars,
                   mysql_vars>>

RunNext ==
    \/ NextRun
    \/ Main
    \/ MigrateStructure
    \/ RecreateSchema
    \/ ListAllEnums
    \/ CreateEnum
    \/ ListAllTables
    \/ NextTable
    \/ MigrateSequences
    \/ MigrateTableStructure
    \/ MigratePartitions
    \/ MigrateIndexes
    \/ MigrateConstraints
    \/ Finish
    \/ StructureReturned
    \/ MigrateData
    \/ MigrateTableData
    \/ DataFinish

RunSpec == RunInit /\ [][RunNext]_vars

\* ------------------------------------------------------- claims on the run

\* The statements of the data migrator in the log of the run.
IsDataExec(e) ==
    e.ev = "exec" /\ e.stmt # <<>> /\ e.stmt[1] \in {"TRUNCATE TABLE ", "INSERT INTO "}
IsStructureEntry(e) == e.stage # "data"

\* C15: the data phase starts only after the structure phase has returned: no
\* TRUNCATE or INSERT is in the log while the structure migrator runs and none
\* is followed by a statement of the structure migrator; after an error of the
\* structure phase there is no TRUNCATE or INSERT at all; and the rows of every
\* target table that is not listed in tables.data_source are those the table
\* held when the data phase started.
C15_DataAfterStructure ==
    /\ phase \in {"main", "migrate_structure", "structure"}
          => \A k \in 1..Len(log) : ~IsDataExec(log[k])
    /\ \A j, k \in 1..Len(log) : (IsDataExec(log[j]) /\ j < k) => ~IsStructureEntry(log[k])
    /\ exit_cause = "structure" => \A k \in 1..Len(log) : ~IsDataExec(log[k])
    /\ (phase = "data" \/ (phase = "exit" /\ exit_cause = "completed" /\ copy_data))
          => \A t \in DOMAIN db.rows : t \notin Range(data_source) => db.rows[t] = rows_before[t]

\* The returns of migrate_table in the log, and the TRUNCATEs of a table.
IsDataReturn(e) == e.ev = "return" /\ e.stage = "data"
DataReturns == SelectSeq(log, IsDataReturn)
Truncates(t) ==
    {k \in 1..Len(log) : IsDataExec(log[k]) /\ log[k].stmt = TruncateStmt(t)}

\* C16: DataMigrator::migrate attempts the tables of tables.data_source once
\* each and in the order of the configuration, whatever the earlier tables
\* returned; a table that was attempted is in success_tables when its
\* migrate_table returned Ok and in failed_tables otherwise, never in both;
\* and the loop never ends the run: the run ends with every table attempted
\* and exit code 0.
C16_PerTableIsolation ==
    phase \in {"data", "exit"} /\ (phase = "exit" => DataReturns # <<>>) =>
        /\ Len(DataReturns) = didx - 1
        /\ didx <= Len(data_source) + 1
        /\ \A k \in 1..Len(DataReturns) :
              /\ DataReturns[k].tbl[2] = data_source[k]
              /\ Cardinality(Truncates(data_source[k])) = 1
              /\ (DataReturns[k].res = "ok") = (data_source[k] \in Range(success_tables))
              /\ (DataReturns[k].res # "ok") = (data_source[k] \in Range(failed_tables))
        /\ \A k \in didx..Len(data_source) : Truncates(data_source[k]) = {}
        /\ Len(success_tables) + Len(failed_tables) = didx - 1
        /\ phase = "exit" => (didx = Len(data_source) + 1 /\ exit_code = 0)

\* A run that ended after its first table failed and its second succeeded.
C16_Witness ==
    /\ phase = "exit"
    /\ Len(data_source) = 2
    /\ failed_tables = <<data_source[1]>>
    /\ success_tables = <<data_source[2]>>

\* The log entries of the statements and queries migrate_table made for table t.
DataEntries(t) ==
    {k \in 1..Len(log) : log[k].stage = "data" /\ log[k].ev # "return" /\ log[k].tbl[2] = t}
IsInsert(e) == e.ev = "exec" /\ e.stmt[1] = "INSERT INTO "
IsTruncateOk(e, t) == e.ev = "exec" /\ e.stmt = TruncateStmt(t) /\ e.res = "ok"

\* C17: for every table of tables.data_source the first statement is the
\* TRUNCATE of <target_schema>.table, and every query on the source and the
\* INSERT come after a TRUNCATE that succeeded; there is at most one INSERT, it
\* is into <target_schema>.table and follows every query on the source; and
\* when migrate_table returned an error after the TRUNCATE, or the source
\* table holds no row, no INSERT took effect and the target table is empty
\* (nothing rolls the TRUNCATE back).
C17_TruncateThenInsert ==
    \A t \in Range(data_source) :
        /\ \A j \in DataEntries(t) :
              \/ log[j].stmt = TruncateStmt(t) /\ \A i \in DataEntries(t) : j <= i
              \/ \E i \in DataEntries(t) : i < j /\ IsTruncateOk(log[i], t)
        /\ Cardinality({j \in DataEntries(t) : IsInsert(log[j])}) <= 1
        /\ \A j \in DataEntries(t) :
              IsInsert(log[j]) =>
                 /\ SubSeq(log[j].stmt, 2, 5) = <<TargetSchema, ".", t, " (">>
                 /\ \A i \in DataEntries(t) : log[i].ev = "read" => i < j
        /\ \A k \in 1..Len(DataReturns) :
              (/\ DataReturns[k].tbl[2] = t
               /\ \E i \in DataEntries(t) : IsTruncateOk(log[i], t)
               /\ DataReturns[k].res # "ok" \/ SrcRows(source_schema, t) = <<>>)
                  => /\ db.rows[t] = <<>>
                     /\ \A j \in DataEntries(t) : IsInsert(log[j]) => log[j].res # "ok"

\* A table that held rows was truncated, its INSERT failed, and the run ended
\* with the table empty.
C17_Witness ==
    /\ phase = "exit"
    /\ \E t \in Range(failed_tables) :
          /\ rows_before[t] # <<>>
          /\ db.rows[t] = <<>>
          /\ \E i, j \in DataEntries(t) :
                i < j /\ IsTruncateOk(log[i], t) /\ IsInsert(log[j]) /\ log[j].res = "error"

\* C18: after data migration the number of rows of <target_schema>.T equals
\* the number of rows the SELECT on <source_schema>.T returned.  Stated here
\* of the runs the claim is most likely to hold for: runs without a database
\* error, and the tables DataMigrator::migrate reported in "Success tables".
C18_RowCounts ==
    (phase = "exit" /\ exit_cause = "completed" /\ copy_data /\ faults = 0) =>
        \A t \in Range(success_tables) :
            Len(db.rows[t]) = Len(SrcRows(source_schema, t))

\* The VALUES tuples with every NULL of the source written as the literal NULL
\* (columns: the columns of the INSERT, which never include id).
NullsAsLiteral(rows, columns) ==
    [r \in 1..Len(rows) |->
        <<"(">>
        \o JoinWith([k \in 1..Len(columns) |->
                        IF rows[r][columns[k].column_name].null THEN <<"NULL">>
                        ELSE ValueText(rows[r], r - 1, columns, k - 1)],
                    <<", ">>)
        \o <<")">>]

\* C19: in every INSERT of the data migrator a NULL of a column other than id
\* is written as the literal NULL: the row index + 1 is written neither for
\* a table without an id column nor for the first column after id.
C19_NullIsLiteralNull ==
    \A k \in 1..Len(log) :
        (log[k].stage = "data" /\ IsInsert(log[k])) =>
            log[k].stmt =
                InsertStmt(log[k].tbl[2],
                           get_column_list(get_table_columns(source_schema, log[k].tbl[2])),
                           NullsAsLiteral(SrcRows(source_schema, log[k].tbl[2]),
                                          get_table_columns(source_schema, log[k].tbl[2])))

\* Both phases the configuration asks for ran to their end.
RanToEnd ==
    /\ copy_structure => (pc = "done" /\ result = "Ok")
    /\ copy_data => Len(DataReturns) = Len(data_source)

\* C20: the process has no exit code while it runs; a run whose phases ran to
\* their end exits with code 0, whatever tables are in failures or in
\* failed_tables; a run ended by the configuration (unreadable, unsupported
\* category) or by a connection that could not be opened exits with a code
\* other than 0.
C20_ExitCodes ==
    /\ phase # "exit" => exit_code = -1
    /\ phase = "exit" =>
          /\ exit_code \in {0, 1, 101}
          /\ exit_cause = "completed" => exit_code = 0
          /\ (RanToEnd /\ exit_cause \notin {"config", "connection"}) => exit_code = 0
          /\ exit_cause \in {"config", "connection"} => exit_code # 0

\* A run that ended with code 0 after a table failed in the structure phase
\* and a table failed in the data phase.
C20_Witness ==
    /\ phase = "exit"
    /\ exit_code = 0
    /\ failures # <<>>
    /\ failed_tables # <<>>

\* ============================================================ the MySQL path

\* The table names of the modelled MySQL databases, in the order of SHOW TABLES.
MysqlSorted ==
    <<"ar_internal_metadata", "events_2024", "events_2024_bak", "legacy", "orders",
      "schema_migrations", "test_tab", "users">>
MysqlNames == Range(MysqlSorted)

\* The table a table references by a foreign key ("": none): orders.user_id
\* references users.id.
MysqlParent(t) == IF t = "orders" THEN "users" ELSE ""

\* The tables of d that reference t by a foreign key.
MysqlChildren(d, t) == {c \in d.tables : MysqlParent(c) = t}

\* The text of the column "Create Table" of SHOW CREATE TABLE (the back quotes
\* around the names are left out of the texts of the MySQL path).
ShowCreateTable(t) ==
    <<"CREATE TABLE ", t, " (", "id bigint NOT NULL">>
    \o (IF MysqlParent(t) = "" THEN <<>>
        ELSE <<", FOREIGN KEY (user_id) REFERENCES ", MysqlParent(t), " (id)">>)
    \o <<")">>

\* The table a CREATE TABLE text references ("": none).
ReferencedTable(stmt) ==
    IF \E k \in 1..(Len(stmt) - 1) : stmt[k] = ", FOREIGN KEY (user_id) REFERENCES "
    THEN stmt[1 + CHOOSE k \in 1..(Len(stmt) - 1) :
                      stmt[k] = ", FOREIGN KEY (user_id) REFERENCES "]
    ELSE ""

NoMysqlRows == [t \in MysqlNames |-> 0]

\* The answer of the target server to a statement, with foreign_key_checks fk
\* on the connection: rows holds the number of rows of every table, the row
\* number r of orders references the row number r of users.
MysqlExec(d, fk, stmt) ==
    IF stmt[1] = "SET FOREIGN_KEY_CHECKS = "
    THEN [res |-> "ok", db |-> d, fk |-> IF stmt[2] = "0" THEN 0 ELSE 1]
    ELSE IF stmt[1] = "DROP TABLE IF EXISTS "
    THEN IF fk = 1 /\ stmt[2] \in d.tables /\ MysqlChildren(d, stmt[2]) # {}
         THEN [res |-> "error", db |-> d, fk |-> fk]
         ELSE [res |-> "ok",
               db |-> [tables |-> d.tables \ {stmt[2]},
                       rows |-> [d.rows EXCEPT ![stmt[2]] = 0]],
               fk |-> fk]
    ELSE IF stmt[1] = "CREATE TABLE "
    THEN IF \/ stmt[2] \in d.tables
            \/ fk = 1 /\ ReferencedTable(stmt) # "" /\ ReferencedTable(stmt) \notin d.tables
         THEN [res |-> "error", db |-> d, fk |-> fk]
         ELSE [res |-> "ok", db |-> [d EXCEPT !.tables = @ \cup {stmt[2]}], fk |-> fk]
    ELSE IF stmt[1] = "TRUNCATE TABLE "
    THEN IF stmt[2] \notin d.tables \/ (fk = 1 /\ MysqlChildren(d, stmt[2]) # {})
         THEN [res |-> "error", db |-> d, fk |-> fk]
         ELSE [res |-> "ok", db |-> [d EXCEPT !.rows[stmt[2]] = 0], fk |-> fk]
    ELSE IF stmt[1] = "INSERT INTO "
    THEN IF \/ stmt[2] \notin d.tables
            \/ /\ fk = 1
               /\ MysqlParent(stmt[2]) # ""
               /\ \/ MysqlParent(stmt[2]) \notin d.tables
                  \/ d.rows[MysqlParent(stmt[2])] <= d.rows[stmt[2]]
         THEN [res |-> "error", db |-> d, fk |-> fk]
         ELSE [res |-> "ok", db |-> [d EXCEPT !.rows[stmt[2]] = @ + 1], fk |-> fk]
    ELSE [res |-> "error", db |-> d, fk |-> fk]

\* A part of a MySQL migrator is run on a record st: db the target, fk the
\* foreign_key_checks of its connection, ents the log entries so far, n the
\* round trips so far, err "" or the error returned.
MysqlBegin(d, fk) == [db |-> d, fk |-> fk, ents |-> <<>>, n |-> 0, err |-> ""]

\* A statement on the target connection; the round trip number f fails.
MysqlAnswer(st, stmt, f) ==
    IF st.n + 1 = f THEN [res |-> "error", db |-> st.db, fk |-> st.fk]
    ELSE MysqlExec(st.db, st.fk, stmt)

MysqlAnswered(st, a, tbl, stage, stmt) ==
    [db |-> a.db, fk |-> a.fk,
     ents |-> Append(st.ents, Entry("exec", <<"", tbl>>, stage, stmt, a.res)),
     n |-> st.n + 1,
     err |-> IF a.res = "ok" THEN "" ELSE "QueryExecution"]

\* StructureMigrator::exec_no_output_statement
exec_no_output_statement(st, tbl, query, f) ==
    IF st.err # "" THEN st
    ELSE MysqlAnswered(st, MysqlAnswer(st, query, f), tbl, "mysql_structure", query)

\* A query on the source connection; only its failure is recorded.
MysqlQuery(st, error, f) ==
    IF st.err # "" THEN st
    ELSE IF st.n + 1 = f THEN [st EXCEPT !.n = @ + 1, !.err = error]
    ELSE [st EXCEPT !.n = @ + 1]

\* is_private_table of the PostgreSQL structure migrator.
is_private_table_postgres(table_name) == table_name \in {}

\* mysql_processor StructureMigrator::is_private_table
is_private_table(table_name) == table_name \in {"schema_migrations", "ar_internal_metadata"}

\* skip_table of the MySQL structure migrator: the default method of the trait.
mysql_skip_table(table_name) == DefaultPatternMatch(NameChars(table_name))

\* self.skip_table(table) || self.is_private_table(table)
MysqlSkips(table) == mysql_skip_table(table) \/ is_private_table(table)

\* The MySQL structure migrator returns Err by the ? operator.
MysqlAbort(st) ==
    /\ mysql_target' = st.db
    /\ fk_checks' = st.fk
    /\ log' = log \o st.ents \o <<Entry("return", NoTable, "mysql_structure", <<>>, st.err)>>
    /\ pc' = "done"
    /\ result' = "Err"

\* A step of the MySQL structure migrator ended in st and goes on at next.
MysqlStep(st, next) ==
    IF st.err # "" THEN MysqlAbort(st) /\ UNCHANGED idx
    ELSE /\ mysql_target' = st.db
         /\ fk_checks' = st.fk
         /\ log' = log \o st.ents
         /\ pc' = next
         /\ idx' = IF next = pc THEN idx + 1 ELSE 1
         /\ UNCHANGED result

\* What the steps of the MySQL path leave alone.
MysqlFrame ==
    UNCHANGED <<source_schema, copy_staging_tables, in_path, src_tables, db, enums, tables,
                success, failures, skipped, rw_vars, dump_vars, copy_structure, copy_data,
                data_source, src_count, src_nulls, strict_decode, failed_tables,
                success_tables, rerun, rows_before, other_enum, mysql_source>>

\* The rows of SHOW TABLES on a database that holds the tables names.
Listing(names) == SelectSeq(MysqlSorted, LAMBDA t : t \in names)

\* main for the category "mysql" and Migrator::migrate up to the call of
\* StructureMigrator::migrate.
MysqlMain ==
    /\ phase = "main"
    /\ phase' = IF copy_structure THEN "mysql_structure" ELSE "mysql_migrate_data"
    /\ pc' = IF copy_structure THEN "connect" ELSE pc
    /\ UNCHANGED <<mysql_target, fk_checks, target_tables, source_tables, table_skipped,
                   table_processed, idx, didx, log, result, faults, exit_code, exit_cause>>
    /\ MysqlFrame

\* StructureMigrator::migrate up to the loop over the target tables: both
\* connections, get_tables on the target, SET FOREIGN_KEY_CHECKS = 0.
MysqlConnect ==
    /\ phase = "mysql_structure"
    /\ pc = "connect"
    /\ \E connected \in BOOLEAN :
          IF ~connected
          THEN /\ pc' = "done"
               /\ result' = "Err"
               /\ log' = Append(log, Entry("return", NoTable, "mysql_structure", <<>>,
                                           "DbConnection"))
               /\ UNCHANGED <<mysql_target, fk_checks, target_tables, idx, faults>>
          ELSE \E f \in 0..(IF MayFail THEN 2 ELSE 0) :
                  /\ faults' = Faults(f)
                  /\ target_tables' = IF f = 1 THEN <<>> ELSE Listing(mysql_target.tables)
                  /\ MysqlStep(exec_no_output_statement(
                                  MysqlQuery(MysqlBegin(mysql_target, 1), "DbTableStructure", f),
                                  "", <<"SET FOREIGN_KEY_CHECKS = ", "0">>, f), "drop")
    /\ UNCHANGED <<source_tables, table_skipped, table_processed, didx, phase, exit_code,
                   exit_cause>>
    /\ MysqlFrame

\* One turn of the loop over the target tables.
MysqlDropTable ==
    /\ phase = "mysql_structure"
    /\ pc = "drop"
    /\ idx <= Len(target_tables)
    /\ \E f \in 0..(IF MayFail THEN 1 ELSE 0) :
          /\ faults' = Faults(f)
          /\ MysqlStep(exec_no_output_statement(
                          MysqlBegin(mysql_target, fk_checks), target_tables[idx],
                          <<"DROP TABLE IF EXISTS ", target_tables[idx]>>, f), "drop")
    /\ UNCHANGED <<target_tables, source_tables, table_skipped, table_processed, didx, phase,
                   exit_code, exit_cause>>
    /\ MysqlFrame

\* get_tables on the source, after the loop over the target tables.
MysqlReadTables ==
    /\ phase = "mysql_structure"
    /\ pc = "drop"
    /\ idx > Len(target_tables)
    /\ \E f \in 0..(IF MayFail THEN 1 ELSE 0) :
          /\ faults' = Faults(f)
          /\ source_tables' = IF f = 1 THEN <<>> ELSE mysql_source
          /\ MysqlStep(MysqlQuery(MysqlBegin(mysql_target, fk_checks), "DbTableStructure", f),
                       "tables")
    /\ UNCHANGED <<target_tables, table_skipped, table_processed, didx, phase, exit_code,
                   exit_cause>>
    /\ MysqlFrame

\* get_create_table_ddl and the execution of its text on the target.
MysqlCreateTable(table, f) ==
    exec_no_output_statement(
        MysqlQuery(MysqlBegin(mysql_target, fk_checks), "DbTableStructure", f),
        table, ShowCreateTable(table), f)

\* One turn of the loop over the source tables.
MysqlNextTable ==
    /\ phase = "mysql_structure"
    /\ pc = "tables"
    /\ idx <= Len(source_tables)
    /\ IF MysqlSkips(source_tables[idx])
       THEN /\ table_skipped' = Append(table_skipped, source_tables[idx])
            /\ idx' = idx + 1
            /\ UNCHANGED <<mysql_target, fk_checks, log, pc, result, faults, table_processed>>
       ELSE \E f \in 0..(IF MayFail THEN 2 ELSE 0) :
               /\ faults' = Faults(f)
               /\ MysqlStep(MysqlCreateTable(source_tables[idx], f), "tables")
               /\ table_processed' =
                     IF MysqlCreateTable(source_tables[idx], f).err = ""
                     THEN Append(table_processed, source_tables[idx])
                     ELSE table_processed
               /\ UNCHANGED table_skipped
    /\ UNCHANGED <<target_tables, source_tables, didx, phase, exit_code, exit_cause>>
    /\ MysqlFrame

\* After the loop over the source tables: SET FOREIGN_KEY_CHECKS = 1, Ok(()).
MysqlEnableChecks ==
    /\ phase = "mysql_structure"
    /\ pc = "tables"
    /\ idx > Len(source_tables)
    /\ \E f \in 0..(IF MayFail THEN 1 ELSE 0) :
          /\ faults' = Faults(f)
          /\ IF f = 1
             THEN MysqlAbort(exec_no_output_statement(
                               MysqlBegin(mysql_target, fk_checks), "",
                               <<"SET FOREIGN_KEY_CHECKS = ", "1">>, f))
             ELSE /\ mysql_target' = mysql_target
                  /\ fk_checks' = 1
                  /\ log' = log \o <<Entry("exec", NoTable, "mysql_structure",
                                            <<"SET FOREIGN_KEY_CHECKS = ", "1">>, "ok"),
                                      Entry("return", NoTable, "mysql_structure", <<>>, "ok")>>
                  /\ pc' = "done"
                  /\ result' = "Ok"
    /\ UNCHANGED <<idx, target_tables, source_tables, table_skipped, table_processed, didx,
                   phase, exit_code, exit_cause>>
    /\ MysqlFrame

\* struct_migrator.migrate().await?
MysqlStructureReturned ==
    /\ phase = "mysql_structure"
    /\ pc = "done"
    /\ IF result = "Ok"
       THEN /\ phase' = "mysql_migrate_data"
            /\ UNCHANGED <<exit_code, exit_cause>>
       ELSE Exit(1, "structure")
    /\ UNCHANGED <<mysql_target, fk_checks, target_tables, source_tables, table_skipped,
                   table_processed, idx, didx, pc, log, result, faults>>
    /\ MysqlFrame

\* A statement of the data migrator on the target connection.
MysqlDataExec(st, tbl, stmt, f) ==
    IF st.err # "" THEN st
    ELSE MysqlAnswered(st, MysqlAnswer(st, stmt, f), tbl, "mysql_data", stmt)

\* DataMigrator::truncate_table
truncate_table(st, table, f) ==
    MysqlDataExec(
        MysqlDataExec(
            MysqlDataExec(st, table, <<"SET FOREIGN_KEY_CHECKS = ", "0", ";">>, f),
            table, <<"TRUNCATE TABLE ", table, ";">>, f),
        table, <<"SET FOREIGN_KEY_CHECKS = ", "1", ";">>, f)

\* DataMigrator::get_data: get_columns returns an error of its query, the
\* SELECT is unwrapped and panics on an error.
get_data(st, table, f) ==
    IF st.err # "" THEN st
    ELSE IF table \notin Range(mysql_source) THEN [st EXCEPT !.n = @ + 1, !.err = "QueryExecution"]
    ELSE MysqlQuery(MysqlQuery(st, "QueryExecution", f), "panic", f)

\* The single-row INSERT of row number r.
MysqlInsert(table, r) ==
    <<"INSERT INTO ", table, " (", "id", ") VALUES (", "'", ToStr(r), "'", ");">>

\* The loop over the rows of a table, from row number r.
RECURSIVE InsertRowsFrom(_, _, _, _)
InsertRowsFrom(st, table, r, f) ==
    IF r > src_count \/ st.err # "" THEN st
    ELSE InsertRowsFrom(MysqlDataExec(st, table, MysqlInsert(table, r), f), table, r + 1, f)

\* One turn of the loop of DataMigrator::migrate.
MysqlCopyTable(d, fk, table, f) ==
    InsertRowsFrom(
        get_data(IF ~copy_structure THEN truncate_table(MysqlBegin(d, fk), table, f)
                 ELSE MysqlBegin(d, fk),
                 table, f),
        table, 1, f)

\* The turn of the loop ended in st.
MysqlTableCopied(st) ==
    /\ mysql_target' = st.db
    /\ fk_checks' = st.fk
    /\ log' = log \o st.ents
              \o <<Entry("return", <<"", data_source[didx]>>, "mysql_data", <<>>,
                         IF st.err = "" THEN "ok" ELSE st.err)>>
    /\ IF st.err = ""
       THEN /\ didx' = didx + 1
            /\ UNCHANGED <<phase, exit_code, exit_cause>>
       ELSE /\ IF st.err = "panic" THEN Exit(101, "panic") ELSE Exit(1, "data")
            /\ UNCHANGED didx

\* Migrator::migrate up to the loop of DataMigrator::migrate: both connections
\* are opened anew.
MysqlMigrateData ==
    /\ phase = "mysql_migrate_data"
    /\ IF copy_data
       THEN \E connected \in BOOLEAN :
               IF connected
               THEN /\ phase' = "mysql_data"
                    /\ fk_checks' = 1
                    /\ UNCHANGED <<exit_code, exit_cause>>
               ELSE /\ Exit(1, "connection")
                    /\ UNCHANGED fk_checks
       ELSE /\ Exit(0, "completed")
            /\ UNCHANGED fk_checks
    /\ UNCHANGED <<mysql_target, target_tables, source_tables, table_skipped,
                   table_processed, idx, didx, pc, log, result, faults>>
    /\ MysqlFrame

MysqlDataTable ==
    /\ phase = "mysql_data"
    /\ didx <= Len(data_source)
    /\ \E f \in 0..(IF MayFail
                     THEN MysqlCopyTable(mysql_target, fk_checks, data_source[didx], 0).n
                     ELSE 0) :
          /\ faults' = Faults(f)
          /\ MysqlTableCopied(MysqlCopyTable(mysql_target, fk_checks, data_source[didx], f))
    /\ UNCHANGED <<target_tables, source_tables, table_skipped, table_processed, idx, pc,
                   result>>
    /\ MysqlFrame

\* After the loop: Ok(()), and main returns Ok.
MysqlDataFinish ==
    /\ phase = "mysql_data"
    /\ didx > Len(data_source)
    /\ Exit(0, "completed")
    /\ UNCHANGED <<mysql_target, fk_checks, target_tables, source_tables, table_skipped,
                   table_processed, idx, didx, pc, log, result, faults>>
    /\ MysqlFrame

\* The source databases and the targets of the modelled runs.
MysqlSources ==
    {src \in {<<>>, <<"users">>, <<"orders", "users">>,
              <<"orders", "schema_migrations", "users">>,
              <<"ar_internal_metadata", "events_2024", "users">>,
              <<"events_2024_bak", "test_tab", "users">>,
              <<"ar_internal_metadata", "events_2024_bak", "orders", "users">>} :
        Len(src) <= MaxTables}
MysqlTargets ==
    {[tables |-> {}, rows |-> NoMysqlRows],
     [tables |-> {"legacy"}, rows |-> NoMysqlRows],
     [tables |-> {"orders", "users"},
      rows |-> [NoMysqlRows EXCEPT !["orders"] = 1, !["users"] = 1]]}

MysqlInit ==
    /\ StructureIdle
    /\ RewriterIdle
    /\ DumpIdle
    /\ mysql_source \in MysqlSources
    /\ mysql_target \in MysqlTargets
    /\ fk_checks = 1
    /\ target_tables = <<>>
    /\ source_tables = <<>>
    /\ table_skipped = <<>>
    /\ table_processed = <<>>
    /\ phase = "main"
    /\ exit_code = -1
    /\ exit_cause = ""
    /\ copy_structure \in BOOLEAN
    /\ copy_data \in BOOLEAN
    /\ data_source \in IF copy_data
                       THEN {<<>>, <<"users">>, <<"orders", "users">>, <<"users", "orders">>}
                       ELSE {<<>>}
    /\ src_count \in IF copy_data THEN 0..MaxRows ELSE {0}
    /\ src_nulls = FALSE
    /\ strict_decode = FALSE
    /\ didx = 1
    /\ failed_tables = <<>>
    /\ success_tables = <<>>
    /\ rerun = FALSE
    /\ rows_before = NoRows
    /\ other_enum = TRUE

MysqlNext ==
    \/ MysqlMain
    \/ MysqlConnect
    \/ MysqlDropTable
    \/ MysqlReadTables
    \/ MysqlNextTable
    \/ MysqlEnableChecks
    \/ MysqlStructureReturned
    \/ MysqlMigrateData
    \/ MysqlDataTable
    \/ MysqlDataFinish

MysqlSpec == MysqlInit /\ [][MysqlNext]_vars

\* --------------------------------------------- claims on the pg_dump backend

\* The runs of the pipeline of migrate_structure in the log.
IsStructureSpawn(e) == e.ev = "spawn" /\ e.stage = "pg_dump"

\* C21: with use_pg_dump, a pipeline of the structure phase that was not
\* spawned, ended with a status other than 0 or wrote to stderr makes the
\* structure phase return a CommandExecution error, and the data phase does
\* not start: the run ends with a code other than 0 and without a pipeline of
\* the data phase.
C21_CommandExecutionTerminal ==
    \A k \in 1..Len(log) :
        (IsStructureSpawn(log[k]) /\ log[k].res \in {"not spawned", "failed", "stderr"})
            => /\ result = "Err"
               /\ \E j \in (k + 1)..Len(log) :
                     /\ log[j].ev = "return"
                     /\ log[j].stage = "pg_dump"
                     /\ log[j].res = "CommandExecution"
               /\ phase \in {"pg_dump_structure", "exit"}
               /\ phase = "exit" => exit_code # 0
               /\ \A j \in 1..Len(log) : log[j].stage # "pg_dump_data"

\* The source tables that are not in the target, under the name of the source
\* schema or of the target schema.
LeftOut == {t \in src_tables : ~HasRel(db, source_schema, t) /\ ~HasRel(db, TargetSchema, t)}

\* C22: with use_pg_dump no step of the catalog-driven migrators is taken;
\* the pipeline of the structure phase is spawned only after DROP SCHEMA and
\* CREATE SCHEMA of the target schema succeeded; and after a pipeline that
\* ended without error the source tables left out of the target are those
\* skip_table of the catalog backend skips under the same configuration.
C22_SameContract ==
    use_pg_dump =>
        /\ pc = "off" /\ phase \notin {"structure", "data"}
        /\ \A k \in 1..Len(log) : log[k].stage \in {"pg_dump", "pg_dump_data"}
        /\ \A k \in 1..Len(log) :
              IsStructureSpawn(log[k])
                 => /\ k = 3
                    /\ \A j \in 1..2 : log[j].ev = "exec" /\ log[j].res = "ok"
                    /\ log[1].stmt[1] = "DROP SCHEMA IF EXISTS "
                    /\ log[2].stmt[1] = "CREATE SCHEMA IF NOT EXISTS "
        /\ (\E k \in 1..Len(log) : IsStructureSpawn(log[k]) /\ log[k].res = "ok")
              => LeftOut = {t \in src_tables : skip_table(t)}

\* ------------------------------------------- claims on the table migrator

\* The partition children of a table in the inheritance catalog.
Children(schema, table) ==
    {r.inhrelid : r \in {r \in SrcInherits : r.inhparent = table /\ schema = source_schema}}

\* The statement that creates child as a partition of parent with the bound
\* of child.
PartitionOf(schema, child, parent) ==
    <<"CREATE TABLE ">> \o QuoteIdent(schema) \o <<".">> \o QuoteIdent(child)
    \o <<" PARTITION OF ">> \o QuoteIdent(schema) \o <<".">> \o QuoteIdent(parent)
    \o <<" FOR VALUES ">> \o PartBound(child) \o <<";">>

\* C23: for every table whose partitions stage was run, get_partition_ddl
\* gives one statement per partition child of the table, creating the child
\* as a partition of the table with the child's bound, and nothing for a
\* table without children.
C23_PartitionDdl ==
    \A k \in 1..Len(log) :
        (log[k].ev = "return" /\ log[k].stage = "partitions")
            => get_partition_ddl(log[k].tbl[1], log[k].tbl[2])
                  = {PartitionOf(log[k].tbl[1], c, log[k].tbl[2]) :
                       c \in Children(log[k].tbl[1], log[k].tbl[2])}

\* ------------------------------------------------ claims on the MySQL path

IsMysqlCreate(e) ==
    e.ev = "exec" /\ e.stage = "mysql_structure" /\ e.stmt[1] = "CREATE TABLE "
IsMysqlDrop(e) ==
    e.ev = "exec" /\ e.stage = "mysql_structure" /\ e.stmt[1] = "DROP TABLE IF EXISTS "

\* The source tables that are neither private nor matched by the default
\* pattern of the trait, in the order of the listing.
MysqlKept ==
    SelectSeq(mysql_source,
              LAMBDA t : /\ t \notin {"schema_migrations", "ar_internal_metadata"}
                         /\ ~DefaultPatternMatch(NameChars(t)))

\* C24: the MySQL structure migrator executes no CREATE TABLE for a private
\* table or for a table whose name matches the default pattern of the trait;
\* every CREATE TABLE comes after every DROP TABLE, and after a DROP TABLE of
\* every table the target held; when migrate returns Ok the CREATE TABLE
\* statements are the texts of SHOW CREATE TABLE of all other source tables,
\* in the order of the listing.
C24_MysqlSkipRule ==
    /\ \A k \in 1..Len(log) :
          IsMysqlCreate(log[k])
             => /\ log[k].stmt[2] \notin {"schema_migrations", "ar_internal_metadata"}
                /\ ~DefaultPatternMatch(NameChars(log[k].stmt[2]))
                /\ \A j \in 1..Len(log) : IsMysqlDrop(log[j]) => j < k
                /\ \A t \in Range(target_tables) :
                      \E j \in 1..(k - 1) :
                         IsMysqlDrop(log[j]) /\ log[j].stmt[2] = t /\ log[j].res = "ok"
    /\ result = "Ok"
          => /\ [k \in 1..Len(SelectSeq(log, IsMysqlCreate)) |->
                    SelectSeq(log, IsMysqlCreate)[k].stmt]
                   = [k \in 1..Len(MysqlKept) |-> ShowCreateTable(MysqlKept[k])]
             /\ \A k \in 1..Len(log) : IsMysqlCreate(log[k]) => log[k].res = "ok"
             /\ target_tables = Listing(Range(target_tables))

\* A run of the MySQL structure migrator that returned Ok, dropped a table of
\* the target, skipped a private table and a table matched by the pattern and
\* created a table.
C24_Witness ==
    /\ result = "Ok"
    /\ target_tables # <<>>
    /\ \E t \in Range(table_skipped) : is_private_table(t)
    /\ \E t \in Range(table_skipped) : mysql_skip_table(t)
    /\ \E k \in 1..Len(log) : IsMysqlCreate(log[k])

IsChecksOff(e, stage) ==
    e.ev = "exec" /\ e.stage = stage /\ e.stmt[1] = "SET FOREIGN_KEY_CHECKS = " /\ e.stmt[2] = "0"
IsChecksOn(e, stage) ==
    e.ev = "exec" /\ e.stage = stage /\ e.stmt[1] = "SET FOREIGN_KEY_CHECKS = " /\ e.stmt[2] = "1"
IsMysqlDataStmt(e) ==
    e.ev = "exec" /\ e.stage = "mysql_data" /\ e.stmt[1] \in {"TRUNCATE TABLE ", "INSERT INTO "}

\* C25: every TRUNCATE and every INSERT of the MySQL data migrator is executed
\* after a SET FOREIGN_KEY_CHECKS = 0 with no SET FOREIGN_KEY_CHECKS = 1 in
\* between, and when the data migrator returns Ok a SET FOREIGN_KEY_CHECKS = 1
\* follows it, with copy_structure on or off.
C25_ChecksOffAroundData ==
    \A k \in 1..Len(log) :
        IsMysqlDataStmt(log[k])
           => /\ \E j \in 1..(k - 1) :
                    /\ IsChecksOff(log[j], "mysql_data") /\ log[j].res = "ok"
                    /\ \A m \in (j + 1)..(k - 1) : ~IsChecksOn(log[m], "mysql_data")
              /\ exit_cause = "completed"
                    => \E j \in (k + 1)..Len(log) : IsChecksOn(log[j], "mysql_data")

\* C30: when the MySQL structure migrator has returned, every
\* SET FOREIGN_KEY_CHECKS = 0 it executed on the target is followed by a
\* SET FOREIGN_KEY_CHECKS = 1 it executed, on the paths that end with an error
\* too.
C30_ChecksRestored ==
    (phase = "mysql_structure" /\ pc = "done")
        => \A j \in 1..Len(log) :
              (IsChecksOff(log[j], "mysql_structure") /\ log[j].res = "ok")
                 => \E k \in (j + 1)..Len(log) : IsChecksOn(log[k], "mysql_structure")

\* ------------------------------------ claims on the table migrator, continued

\* The returns of the table stage for a table whose CREATE TABLE text the
\* catalog does not give.
MissingDdlReturns ==
    {k \in 1..Len(log) :
        /\ log[k].ev = "return"
        /\ log[k].stage = "table"
        /\ get_table_ddl(log[k].tbl[1], log[k].tbl[2]) = <<>>}

\* C26: when the catalog gives no CREATE TABLE text for a table, the table
\* stage returns DbTableStructure (QueryExecution when the query itself
\* failed); no CREATE TABLE, partition, index or constraint statement of the
\* table is executed; the table is in failures; the run is not ended by it and
\* at its end every listed table of the source schema is in one of the lists.
C26_MissingDdl ==
    \A k \in MissingDdlReturns :
        /\ log[k].res \in {"DbTableStructure", "QueryExecution"}
        /\ faults = 0 => log[k].res = "DbTableStructure"
        /\ \A j \in 1..Len(log) :
              (log[j].tbl = log[k].tbl /\ j # k)
                 => log[j].stage = "sequences" /\ j < k
        /\ Row(log[k].tbl) \in Range(failures)
        /\ result # "Err"
        /\ pc = "done"
              => \A i \in 1..Len(tables) :
                    tables[i].schema = source_schema
                       => tables[i] \in Range(success) \cup Range(failures) \cup Range(skipped)

\* A run that ended after the table stage of a table without CREATE TABLE
\* text returned DbTableStructure and a later table was migrated.
C26_Witness ==
    /\ pc = "done"
    /\ \E k \in MissingDdlReturns :
          /\ log[k].res = "DbTableStructure"
          /\ \E j \in (k + 1)..Len(log) :
                log[j].ev = "exec" /\ log[j].stage = "table" /\ log[j].res = "ok"
          /\ success # <<>>

IsSequenceCheck(e) ==
    /\ e.ev = "exec" /\ e.stage = "sequences"
    /\ e.stmt # <<>> /\ e.stmt[1] = "SELECT EXISTS information_schema.sequences "

IsCreateSequence(e) ==
    /\ e.ev = "exec" /\ e.stage = "sequences"
    /\ e.stmt # <<>> /\ e.stmt[1] = "CREATE SEQUENCE "

\* The sequence a successful CREATE SEQUENCE made: <<schema, name>>.
CreatedSequence(e) ==
    LET written == NameAt(e.stmt, 2)
    IN <<Unquoted(written[1]), Unquoted(written[Len(written)])>>

\* The sequence the check of entry k asks for existed in the target then.
ExistedAt(k) ==
    \E j \in 1..(k - 1) :
        /\ IsCreateSequence(log[j]) /\ log[j].res = "ok"
        /\ CreatedSequence(log[j]) = <<<<log[k].stmt[2]>>, SubSeq(log[k].stmt, 4, Len(log[k].stmt))>>

\* C27: create_sequence executes CREATE SEQUENCE exactly when the existence
\* check for (target_schema, cleaned name) returned false; when the sequence
\* exists nothing more is done; a sequence referenced by several tables of one
\* run is created at most once and its later references do not fail.
C27_CreateSequenceOnce ==
    /\ \A k \in 1..Len(log) :
          IsCreateSequence(log[k]) =>
             /\ k > 1
             /\ IsSequenceCheck(log[k - 1])
             /\ log[k - 1].res = "ok"
             /\ log[k - 1].tbl = log[k].tbl
             /\ ~ExistedAt(k - 1)
             /\ log[k].res # "exists"
             /\ \A j \in 1..(k - 1) :
                   IsCreateSequence(log[j]) /\ log[j].res = "ok"
                      => CreatedSequence(log[j]) # CreatedSequence(log[k])
    /\ \A k \in 1..(Len(log) - 1) :
          IsSequenceCheck(log[k]) /\ log[k].res = "ok" =>
             IF ExistedAt(k)
             THEN log[k + 1].ev = "return" /\ log[k + 1].res = "ok"
             ELSE \/ IsCreateSequence(log[k + 1])
                  \/ log[k + 1].ev = "return" /\ log[k + 1].res = "QueryExecution"

\* The parts of C27 on the check and on what follows it.
C27_ExecutedWhenAbsent ==
    /\ \A k \in 1..Len(log) :
          IsCreateSequence(log[k]) =>
             /\ k > 1
             /\ IsSequenceCheck(log[k - 1])
             /\ log[k - 1].res = "ok"
             /\ log[k - 1].tbl = log[k].tbl
             /\ ~ExistedAt(k - 1)
    /\ \A k \in 1..(Len(log) - 1) :
          IsSequenceCheck(log[k]) /\ log[k].res = "ok" =>
             IF ExistedAt(k)
             THEN log[k + 1].ev = "return" /\ log[k + 1].res = "ok"
             ELSE \/ IsCreateSequence(log[k + 1])
                  \/ log[k + 1].ev = "return" /\ log[k + 1].res = "QueryExecution"

\* The end of the word that starts at position p of a text of characters.
WordEnd(x, p) ==
    IF \E q \in p..Len(x) : ~IsWord(x[q])
    THEN CHOOSE q \in p..Len(x) : ~IsWord(x[q]) /\ \A m \in p..(q - 1) : IsWord(x[m])
    ELSE Len(x) + 1

\* At position p stands exactly one of the listed built-in type names.
ExactTypeAt(x, p) ==
    \E k \in 1..Len(built_in_types) :
        LET name == Chars(built_in_types[k])
        IN /\ StartsWithAt(x, name, p)
           /\ p + Len(name) <= Len(x) => ~IsWord(x[p + Len(name)])

\* The positions of a text where the target schema qualifies a name that is
\* not a listed built-in type (and is not itself followed by a dot).
UserTypeRefs(target, x) ==
    {i \in 1..Len(x) :
        /\ StartsWithAt(x, Chars(target \o "."), i)
        /\ LET p == i + Len(target) + 1
               q == WordEnd(x, p)
           IN /\ q > p
              /\ ~ExactTypeAt(x, p)
              /\ q <= Len(x) => x[q] # "."}

\* The names so qualified, each with its rank among them.
UserTypeNames(target, x) ==
    LET refs == UserTypeRefs(target, x)
    IN {<<Cardinality({j \in refs : j < i}),
          SubSeq(x, i + Len(target) + 1, WordEnd(x, i + Len(target) + 1) - 1)>> : i \in refs}

\* C28: clean_type_references removes the target schema prefix only in front
\* of a name that is exactly a listed built-in type: every other name the
\* target schema qualifies in the text is still qualified by it in the result.
C28_UserTypesKeepSchema ==
    \A k \in 1..Len(rw_calls) :
        rw_calls[k].fn = "clean_type_references"
            => UserTypeNames(rw_target, rw_calls[k].output)
                  = UserTypeNames(rw_target, rw_calls[k].input)

\* A statement that only reads.
IsSelect(stmt) ==
    /\ stmt # <<>>
    /\ stmt[1] \in {"SELECT ", "SELECT EXISTS information_schema.sequences "} \cup Range(ColumnsQuery)

\* The first words of the statements that change a database.
ChangingWords ==
    {"DROP SCHEMA IF EXISTS ", "CREATE SCHEMA IF NOT EXISTS ",
     "DO $$ BEGIN IF NOT EXISTS (SELECT 1 FROM pg_type t JOIN pg_namespace n ",
     "CREATE SEQUENCE ",
     "CREATE TABLE ", "CREATE UNIQUE INDEX ", "CREATE INDEX ", "ALTER TABLE ",
     "TRUNCATE TABLE ", "INSERT INTO "}

\* C29: on the catalog path the source connection carries queries only: every
\* statement that changes state (schema, type, sequence, table, partition,
\* index and constraint DDL, TRUNCATE, INSERT) is issued on the target
\* connection, in runs with failures too.
C29_SourceOnlyRead ==
    \A k \in 1..Len(log) :
        /\ log[k].ev = "read" => IsSelect(log[k].stmt)
        /\ (log[k].stmt # <<>> /\ log[k].stmt[1] \in ChangingWords) => log[k].ev = "exec"

C29_Witness ==
    /\ phase = "exit"
    /\ \E k \in 1..Len(log) : log[k].ev = "read" /\ log[k].res = "ok"
    /\ \A w \in {"DROP SCHEMA IF EXISTS ", "CREATE SEQUENCE ", "CREATE TABLE ", "ALTER TABLE ",
                  "INSERT INTO "} :
          \E k \in 1..Len(log) :
              log[k].ev = "exec" /\ log[k].stmt # <<>> /\ log[k].stmt[1] = w /\ log[k].res = "ok"
    /\ \E k \in 1..Len(log) : log[k].ev = "exec" /\ log[k].res = "error"

====
